---- MODULE Spec2Model ----
(***************************************************************************)
(* Bouncing balls: the sequential stepper (JSBackend.update) and the       *)
(* parallel stepper (the WGSL compute shader dispatched by                 *)
(* WebGPUBackend.update), each with the draw that follows it in loop().    *)
(*                                                                         *)
(* Numbers.  Positions, velocities and radii are floating point in the     *)
(* source.  Here they are fixed point: an integer v stands for v / Scale   *)
(* pixels.  Products of the sequential stepper are rounded toward minus    *)
(* infinity, the velocity of a child of the shader to the nearest unit.    *)
(* The seed radius 60.0 is 60 * Scale, the floor 1.0 is One.               *)
(*                                                                         *)
(* Random numbers.  Math.random() returns a value in [0, 1): a draw is     *)
(* chosen from a small set of fixed point values.  The shader's random()   *)
(* is a generator seeded from the invocation index and the configured      *)
(* canvas area: it is computed, in 32 bit unsigned arithmetic on two 16    *)
(* bit halves.                                                             *)
(*                                                                         *)
(* Granularity.  A callback of loop() runs to completion: it calls         *)
(* update() and render() and is one action.  For JSBackend that is the     *)
(* step and the draw.  For WebGPUBackend it submits a compute pass and a   *)
(* render pass to the queue of the device; the device takes the commands   *)
(* of the queue in order, one at a time.  An invocation of the shader's    *)
(* main() takes one step per access to shared memory (atomicLoad, load of  *)
(* balls[idx], atomicLoad, atomicAdd, store of balls[new_idx], atomicSub,  *)
(* store of balls[idx]); the private computation between two accesses      *)
(* belongs to the step of the access before it.  The invocations of a      *)
(* dispatch interleave.  No invocation with an index of Reach(cfg) or more *)
(* can pass the test of line 37 (the counter stays below that index);      *)
(* those invocations take their atomicLoad first and together, as the      *)
(* lanes of a subgroup do (LoadCounts).                                    *)
(*                                                                         *)
(* Host and device.  update() reads this.ballCount when it records the     *)
(* compute pass, render() when it records the draw; readBallCount() is cut *)
(* at its await.  The host may run while the device works.  A task of the  *)
(* host reaches the device through the queue only, and the device reaches  *)
(* the host through a resolved mapAsync only, so in Next a task of the     *)
(* host is placed after the work of the device it overlaps with (HostTurn) *)
(* and the order of Turn is imposed; the actions carry neither condition.  *)
(*                                                                         *)
(* Exploration.  A run is followed for MaxTicks frames and host events     *)
(* (resize(), readBallCount()) after its first wall impact, a run of a     *)
(* build that moves a Ball word by word for MixTicks, with caps up to      *)
(* MixCap.                                                                 *)
(*                                                                         *)
(* Races.  The load and the stores of a Ball are not atomic and nothing    *)
(* orders the accesses of two invocations of a dispatch.  A load of a slot *)
(* another invocation writes in the same dispatch returns the content the  *)
(* slot had when the dispatch began or the content it has now; a store to  *)
(* a slot another invocation wrote in the same dispatch leaves the content *)
(* found or the content stored.  That holds in every dispatch of a run.    *)
(* Whether the two contents can also mix depends on the build (`build`):   *)
(* one that moves a Ball word by word delivers each field of the record    *)
(* from either of the two, in every combination (Tears), at every such    *)
(* access.                                                                 *)
(* An access to balls[idx] beyond the buffer follows WGSL: the load yields *)
(* zero or the content of some slot of the buffer, the store is dropped or *)
(* lands in some slot of the buffer.                                       *)
(*                                                                         *)
(* Rendering.  A draw is the sequence of operations it issues on the       *)
(* canvas (JSBackend.render) or the instances of its draw call             *)
(* (WebGPUBackend.render); it is recorded in `drawn` until the next step.  *)
(* JSBackend.render changes its strategy above 10000 particles; no run     *)
(* from the seed gets there within the frames explored, so render() is     *)
(* also applied to populations around that size, given as such (SpecR).    *)
(*                                                                         *)
(* Host.  main.js is a state machine of its own (SpecH): the variables of  *)
(* run(), the requestAnimationFrame callbacks the browser holds, the       *)
(* suspended calls of initWebGPU(), the button clicks, the resize of the   *)
(* window.  An event handler or a callback runs to completion; an async    *)
(* function is cut at its await.  Timestamps are doubles and the frame     *)
(* limiter is computed as the code computes it, rounding included.  The    *)
(* calls of a callback act on the object in `backend`: a JSBackend steps   *)
(* and draws, a WebGPUBackend submits its passes to the queue of its       *)
(* device (what the device does with them is the subject of Spec, the      *)
(* queue is not executed in SpecH); the World of the WASM module is not    *)
(* among the sources, of it the calls are recorded.                        *)
(***************************************************************************)
EXTENDS Integers, Sequences, FiniteSets, TLC

\* ----------------------------------------------------------------- numbers
One == 1000                \* the literal 1.0 in fixed point
Scale == One               \* fixed point units per pixel

\* ------------------------------------------------------------------ bounds
MaxTicks == 2              \* frames and host events explored after the first wall impact
MixTicks == 1              \* frames and host events explored after it with a build that moves a Ball word by word
MixCap == 2                \* largest cap explored with a build that moves a Ball word by word
MaxEvents == 2             \* resize() and readBallCount() calls of a run
RunTicks == 150            \* update() calls of the long run of Scenario A
ResizeWithin == 1          \* update() calls of the long run within which the window is resized
MaxColors == 3             \* distinct colours of the populations render() is called with
MaxTime == 7               \* refreshes of the display the host loop is followed for
MaxClicks == 1             \* button clicks in the host loop
MaxResizes == 1            \* resize events in the host loop

\* ------------------------------------------------------- program constants
SeedVx == 8 * Scale        \* js-backend: vx: 8.0
SeedVy == -6 * Scale       \* js-backend: vy: -6.0
SeedRadius == 60 * Scale   \* js-backend: radius: 60.0
SeedColor == 16729156      \* 0xFF4444
MaxColor == 16777215       \* 0xFFFFFF
FastModeAbove == 10000     \* js-backend: this.balls.length > 10000
WorkgroupSize == 64        \* compute-shader: @workgroup_size(64), webgpu-backend: this.ballCount / 64
Half == 65536              \* 2^16: a u32 is held as << high half, low half >>
Second == 1000             \* main.js: 1000 / targetFPS (ms)
BallCountPeriod == 100     \* main.js: currentTime - lastBallCountUpdate >= 100 (ms)
TargetFPS == 60            \* main.js: let targetFPS = 60
MAX_BALLS == 1000000       \* main.js: const MAX_BALLS = 1000000

\* --------------------------------------------------------------- inputs
\* a canvas twice the seed radius wide, split ratio 0.95: the seed hits the
\* right wall in the first tick, the left wall in the second
Narrow(c) == [width |-> 120, height |-> 200, maxBalls |-> c, num |-> 19, den |-> 20]
\* Scenario B of the specification: radius * splitRatio < 1.0 from the start
ScenarioB == [width |-> 120, height |-> 200, maxBalls |-> 2, num |-> 1, den |-> 64]
\* Scenario A of the specification
ScenarioA == [width |-> 800, height |-> 600, maxBalls |-> 10, num |-> 4, den |-> 5]

\* a canvas twice the seed radius wide and high: the seed hits the right wall and
\* the top wall in the first tick
Corner == [width |-> 120, height |-> 120, maxBalls |-> 2, num |-> 19, den |-> 20]
\* a split ratio of 1.0, outside the open interval (0, 1); the constructors take it
RatioOne == [width |-> 120, height |-> 200, maxBalls |-> 1, num |-> 1, den |-> 1]

\* population caps tried with the narrow canvas (cap 1 is Scenario C)
Caps == { 1, 2, 3 }

Configs == { Narrow(c) : c \in Caps } \cup { ScenarioA, ScenarioB, Corner, RatioOne }

\* window sizes a resize event may bring
Sizes == { [width |-> 120, height |-> 200], [width |-> 400, height |-> 400] }

\* values Math.random() may return in a split: speed and colour 0.5, the jitter
\* of vx 0.0 or 0.25, the jitter of vy 0.0 (every jitter moves the velocity)
SpeedDraws == { Scale \div 2 }
JitterDraws == { 0, Scale \div 4 }
JitterDrawsVy == { 0 }
ColorDraws == { Scale \div 2 }
DrawTuples == [speed : SpeedDraws, color : ColorDraws, jy : JitterDrawsVy, jx : JitterDraws]
NoDraw == [speed |-> Scale \div 2, color |-> Scale \div 2, jy |-> Scale \div 2, jx |-> Scale \div 2]

\* ------------------------------------------------------------ arithmetic
Max(a, b) == IF a >= b THEN a ELSE b
Abs(a) == IF a < 0 THEN -a ELSE a
\* a * b with b a fixed point factor
FMul(a, b) == (a * b) \div Scale
\* radius * splitRatio
TimesRatio(radius, cfg) == (radius * cfg.num) \div cfg.den
Width(cfg) == cfg.width * Scale
Height(cfg) == cfg.height * Scale

\* 0.8 + random() * 0.4
SpeedFactor(r) == (8 * Scale) \div 10 + FMul(r, (4 * Scale) \div 10)
\* (random() - 0.5) * 2.0
Jitter(r) == (r - Scale \div 2) * 2
\* Math.floor(random() * 0xFFFFFF)
ColorOf(r) == r * (MaxColor \div Scale) + (r * (MaxColor % Scale)) \div Scale

\* ------------------------------------------- 32 bit unsigned arithmetic
\* the element of a set of one element; { e(v) : v \in {a} } computes a once,
\* however often e uses it
Only(S) == CHOOSE v \in S : TRUE

\* the u32 of a natural below 2^31
U32(n) == << n \div Half, n % Half >>

\* the product of two 16 bit numbers, as a u32
Mul16(a, b) ==
    Only({ LET a1 == p[1] \div 256
               a0 == p[1] % 256
               b1 == p[2] \div 256
               b0 == p[2] % 256
               mid == a1 * b0 + a0 * b1
               low == a0 * b0 + (mid % 256) * 256
           IN  << (a1 * b1 + (mid \div 256) + (low \div Half)) % Half, low % Half >> :
           p \in { << a, b >> } })

\* a + b, a * b modulo 2^32
U32Add(a, b) ==
    Only({ << (p[1][1] + p[2][1] + ((p[1][2] + p[2][2]) \div Half)) % Half,
              (p[1][2] + p[2][2]) % Half >> : p \in { << a, b >> } })
U32Mul(a, b) ==
    Only({ << (p[3][1] + Mul16(p[1][1], p[2][2])[2] + Mul16(p[1][2], p[2][1])[2]) % Half, p[3][2] >> :
           p \in { << a, b, Mul16(a[2], b[2]) >> } })

\* a >> s
U32Shr(a, s) ==
    IF s >= 16 THEN << 0, a[1] \div (2^(s - 16)) >>
    ELSE << a[1] \div (2^s), (a[2] \div (2^s)) + (a[1] % (2^s)) * 2^(16 - s) >>

\* a ^ b on n bits
RECURSIVE Xor(_, _, _)
Xor(a, b, n) ==
    Only({ IF n = 0 THEN 0 ELSE ((p[1] + p[2]) % 2) + 2 * Xor(p[1] \div 2, p[2] \div 2, n - 1) :
           p \in { << a, b >> } })
U32Xor(a, b) == << Xor(a[1], b[1], 16), Xor(a[2], b[2], 16) >>

\* number of bits of a natural
RECURSIVE BitLen(_)
BitLen(n) == Only({ IF v = 0 THEN 0 ELSE 1 + BitLen(v \div 2) : v \in {n} })

\* --------------------------------------------- the shader's random()
\* seed = idx * 747796405u + u32(config.width * config.height)
Seed(idx, c) == U32Add(U32Mul(U32(idx), U32(747796405)), U32(c.width * c.height))

\* seed = seed * 747796405u + 2891336453u
NextSeed(seed) == U32Add(U32Mul(seed, U32(747796405)), << 44118, 19205 >>)

\* the numerator of the value random() returns for the seed it has just advanced to:
\* result = ((seed >> ((seed >> 28u) + 4u)) ^ seed) * 277803737u; (result >> 22u) ^ result
Tempered(seed) ==
    Only({ U32Xor(U32Shr(result, 22), result) :
             result \in { U32Mul(word, U32(277803737)) :
                            word \in { U32Xor(U32Shr(seed, (seed[1] \div 4096) + 4), seed) } } })

\* the numerator of the n-th random() of an invocation whose seed was set to `seed`
RECURSIVE Random(_, _)
Random(seed, n) ==
    Only({ IF n = 1 THEN Tempered(next) ELSE Random(next, n - 1) : next \in { NextSeed(seed) } })

\* f32(x) / 4294967295.0 in millionths, rounded down (the divisor is 2^32 in f32)
Millionths(x) == (x[1] * 15625 + ((x[2] * 15625) \div Half)) \div 1024

\* f32(x) for a u32 x: x rounded to 24 significant bits, ties to even, as
\* << m, e >> with f32(x) = m * 2^e
F32(x) ==
    LET len == IF x[1] > 0 THEN 16 + BitLen(x[1]) ELSE BitLen(x[2])
        e == Max(0, len - 24)
        q == U32Shr(x, e)[1] * Half + U32Shr(x, e)[2]
        rem == x[2] % (2^e)
        half == (2^e) \div 2
    IN  << q + (IF e > 0 /\ (rem > half \/ (rem = half /\ q % 2 = 1)) THEN 1 ELSE 0), e >>

\* u32(random() * 16777215.0) for the numerator x: x is rounded to 24 significant
\* bits (f32), divided by 2^32, the product is rounded to 24 significant bits again
\* and truncated
GpuColor(x) ==
    Only({ LET m == f[1]
               j == 8 - f[2]
               whole == (m - 1) \div (2^j)
               gap == 2^j - 1 - ((m - 1) % (2^j))
               ex == j + BitLen(whole) - 1
           IN  IF m = 0 THEN 0
               ELSE whole + (IF gap = 0 /\ ex >= 0 /\ m <= 2^ex THEN 1 ELSE 0) :
           f \in { F32(x) } })

\* v * speed_factor in millionths of a pixel, speed_factor = 0.8 + random() * 0.4
\* given in millionths
Scaled(v, speed_factor) == v * (speed_factor \div 1000) + ((v * (speed_factor % 1000)) \div 1000)
GpuSpeedFactor(x) == 800000 + ((4 * Millionths(x)) \div 10)
\* (random() - 0.5) * 2.0 in millionths of a pixel
GpuJitter(x) == 2 * Millionths(x) - 1000000
\* millionths of a pixel to fixed point, to the nearest unit
Nearest(m) == (m + (500000 \div Scale)) \div (1000000 \div Scale)

\* ------------------------------------------------------------- particles
\* the seed particle both backends start with
SeedBall(cfg) ==
    [x |-> Width(cfg) \div 2, y |-> Height(cfg) \div 2,
     vx |-> SeedVx, vy |-> SeedVy, radius |-> SeedRadius,
     color |-> SeedColor, justSplit |-> FALSE]

\* a slot of the zero-initialised GPU buffer
ZeroBall ==
    [x |-> 0, y |-> 0, vx |-> 0, vy |-> 0, radius |-> 0, color |-> 0, justSplit |-> FALSE]

\* ------------------------------------------------------------------ state
VARIABLES
    backend,     \* the class of the object in `backend`: "js" or "webgpu" ("wasm", "none")
    build,       \* webgpu: how the build moves a Ball: "whole" or "words" (member by member)
    canvas,      \* this.canvas: the width and height of the canvas element
    cfg,         \* this.maxBalls, this.splitRatio, and the width and height the step
                 \* under way or last run reads (at first those of the constructor's canvas)
    config,      \* webgpu: configBuffer
    resolution,  \* webgpu: resolutionBuffer
    queue,       \* webgpu: device.queue, the commands submitted and not yet taken up
    events,      \* number of resize() and readBallCount() calls so far
    impact,      \* history: the tick of the first wall impact, 0 before it
    balls,       \* js: this.balls (a sequence); webgpu: ballBuffer, slots 0..maxBalls-1
    ball_count,  \* webgpu: the atomic<u32> counter of the shader
    ballCount,   \* webgpu: this.ballCount, the host's cached count
    pending,     \* webgpu: counter values copied by readBallCount() calls not yet resolved
    pc,          \* webgpu: invocation -> its position in main()
    loc,         \* webgpu: invocation between its load of balls[idx] and its return -> its private variables
    tick,        \* number of update() calls completed or under way
    n0,          \* history: population when the last step began
    pre,         \* history: balls when the last step began
    outcome,     \* history: what the last step decided for each processed index
    childSlot,   \* history: index -> slot of the child its split wrote, or -1
    writers,     \* history: slot -> the invocations that wrote it during the last step
    granted,     \* history: slot -> how many reservations obtained it
    tookPrev,    \* history: the slots that took part in a split in the step before the last
    overlapped,  \* history: two invocations of the last batch were under way at the same time
    drawn,       \* what the draw issued since the last step rasterized, in order
    host         \* main.js: the variables of run() and the browser state they refer to

vars == <<backend, build, canvas, cfg, config, resolution, queue, events, impact,
          balls, ball_count, ballCount, pending, pc, loc, tick,
          n0, pre, outcome, childSlot, writers, granted, tookPrev, overlapped, drawn, host>>
gpuVars == <<ball_count, ballCount, pending, pc, loc, config, resolution, queue>>
\* what the steps of an invocation leave alone on the host's side
surface == <<canvas, config, resolution, queue, events>>

\* the slots that took part in a split of the last step, as parent or as child
Took ==
    { i \in DOMAIN outcome : outcome[i] = "split" }
    \cup { childSlot[i] : i \in { j \in DOMAIN outcome : outcome[j] = "split" } }

\* ------------------------------------------------- JSBackend (sequential)
\* one loop iteration up to the split decision: clear the flag, integrate, bounce
JsMove(ball, c) ==
    LET was == ball.justSplit
        x1 == ball.x + ball.vx
        y1 == ball.y + ball.vy
        r == ball.radius
        lowX == x1 - r < 0
        highX == ~lowX /\ x1 + r > Width(c)
        lowY == y1 - r < 0
        highY == ~lowY /\ y1 + r > Height(c)
    IN  [ball |-> [ball EXCEPT
                     !.justSplit = FALSE,
                     !.x = IF lowX THEN r ELSE IF highX THEN Width(c) - r ELSE x1,
                     !.vx = IF lowX THEN Abs(@) ELSE IF highX THEN -Abs(@) ELSE @,
                     !.y = IF lowY THEN r ELSE IF highY THEN Height(c) - r ELSE y1,
                     !.vy = IF lowY THEN Abs(@) ELSE IF highY THEN -Abs(@) ELSE @],
         hitX |-> lowX \/ highX,
         hitY |-> lowY \/ highY,
         wasJustSplit |-> was]

\* variant: the second jitter hangs on an else, a corner hit jitters one axis only
JsNewBall_ElseIf(ball, newRadius, hitX, hitY, d) ==
    LET speedFactor == SpeedFactor(d.speed)
    IN  [x |-> ball.x, y |-> ball.y,
         vx |-> FMul(ball.vx, speedFactor) + (IF hitY /\ ~hitX THEN Jitter(d.jx) ELSE 0),
         vy |-> FMul(ball.vy, speedFactor) + (IF hitX THEN Jitter(d.jy) ELSE 0),
         radius |-> newRadius,
         color |-> ColorOf(d.color),
         justSplit |-> TRUE]

\* the object literal newBall and the two jitters
JsNewBall(ball, newRadius, hitX, hitY, d) ==
    LET speedFactor == SpeedFactor(d.speed)
    IN  [x |-> ball.x, y |-> ball.y,
         vx |-> FMul(ball.vx, speedFactor) + (IF hitY THEN Jitter(d.jx) ELSE 0),
         vy |-> FMul(ball.vy, speedFactor) + (IF hitX THEN Jitter(d.jy) ELSE 0),
         radius |-> newRadius,
         color |-> ColorOf(d.color),
         justSplit |-> TRUE]

\* variant: the cap is tested against the length alone, children queued in this update ignored
JsHasRoom_Snapshot(len, queued, c) == len < c.maxBalls

\* the cap test of the split condition
JsHasRoom(len, queued, c) == len + queued < c.maxBalls

\* variant: the split condition lacks the test newRadius >= 1.0
JsSplit_NoFloorTest(m, len, queued, c, d) ==
    IF (m.hitX \/ m.hitY) /\ ~m.wasJustSplit
    THEN LET newRadius == TimesRatio(m.ball.radius, c)
         IN  IF JsHasRoom(len, queued, c)
             THEN [ball |-> [m.ball EXCEPT !.radius = newRadius, !.justSplit = TRUE],
                   newBalls |-> << JsNewBall(m.ball, newRadius, m.hitX, m.hitY, d) >>,
                   outcome |-> "split"]
             ELSE [ball |-> [m.ball EXCEPT !.radius = Max(@, One)],
                   newBalls |-> << >>,
                   outcome |-> "clamp"]
    ELSE [ball |-> m.ball, newBalls |-> << >>,
          outcome |-> IF m.hitX \/ m.hitY THEN "grace" ELSE "none"]

\* the split logic of one iteration; len = this.balls.length, queued = newBalls.length
JsSplit(m, len, queued, c, d) ==
    IF (m.hitX \/ m.hitY) /\ ~m.wasJustSplit
    THEN LET newRadius == TimesRatio(m.ball.radius, c)
         IN  IF newRadius >= One /\ JsHasRoom(len, queued, c)
             THEN [ball |-> [m.ball EXCEPT !.radius = newRadius, !.justSplit = TRUE],
                   newBalls |-> << JsNewBall(m.ball, newRadius, m.hitX, m.hitY, d) >>,
                   outcome |-> "split"]
             ELSE [ball |-> [m.ball EXCEPT !.radius = Max(@, One)],
                   newBalls |-> << >>,
                   outcome |-> "clamp"]
    ELSE [ball |-> m.ball, newBalls |-> << >>,
          outcome |-> IF m.hitX \/ m.hitY THEN "grace" ELSE "none"]

\* variant: the child is built but never pushed to newBalls
JsQueue_Dropped(acc, i, s) ==
    [acc EXCEPT !.balls[i] = s.ball,
                !.processed = @ \o << i >>,
                !.outcome = @ \o << s.outcome >>]

\* where a child of iteration i is queued: newBalls, merged after the loop
JsQueue(acc, i, s) ==
    [acc EXCEPT !.balls[i] = s.ball,
                !.newBalls = @ \o s.newBalls,
                !.parents = @ \o (IF s.newBalls = << >> THEN << >> ELSE << i >>),
                !.processed = @ \o << i >>,
                !.outcome = @ \o << s.outcome >>]

\* for (let i = 0; i < this.balls.length; i++) { ... }; i is 1-based here
RECURSIVE JsLoop(_, _, _, _)
JsLoop(i, acc, c, D) ==
    IF i > Len(acc.balls)
    THEN acc
    ELSE LET m == JsMove(acc.balls[i], c)
             s == JsSplit(m, Len(acc.balls), Len(acc.newBalls), c, D[i])
         IN  JsLoop(i + 1, JsQueue(acc, i, s), c, D)

JsStart(bs) ==
    [balls |-> bs, newBalls |-> << >>, parents |-> << >>, processed |-> << >>, outcome |-> << >>]

\* the indices that split in this update (the draws do not influence the decisions)
JsSplitters(bs, c) ==
    LET r == JsLoop(1, JsStart(bs), c, [i \in 1..Len(bs) |-> NoDraw])
    IN  { r.parents[k] : k \in 1..Len(r.parents) }

\* a run is explored while its frames and host events number less than MaxTicks
\* more than the frames up to the first wall impact (MixTicks where the build
\* moves a Ball word by word)
Explored(frames) ==
    \/ impact = 0
    \/ frames + events < impact + (IF build = "words" THEN MixTicks ELSE MaxTicks)

\* what update() reads of the object: this.canvas.width, this.canvas.height,
\* this.maxBalls, this.splitRatio
JsConfig == [cfg EXCEPT !.width = canvas.width, !.height = canvas.height]

\* the body of JSBackend.update()
JsStep ==
    /\ backend = "js"
    /\ \E D \in [JsSplitters(balls, JsConfig) -> DrawTuples] :
         LET DD == [i \in 1..Len(balls) |->
                       IF i \in DOMAIN D THEN D[i] ELSE NoDraw]
             r == JsLoop(1, JsStart(balls), JsConfig, DD)
         IN  /\ balls' = r.balls \o r.newBalls
             /\ n0' = Len(balls)
             /\ pre' = balls
             /\ outcome' = [k \in { r.processed[j] - 1 : j \in 1..Len(r.processed) } |->
                               r.outcome[CHOOSE j \in 1..Len(r.processed) : r.processed[j] = k + 1]]
             /\ childSlot' = [k \in { r.processed[j] - 1 : j \in 1..Len(r.processed) } |->
                               IF \E j \in 1..Len(r.parents) : r.parents[j] = k + 1
                               THEN Len(r.balls) - 1 + (CHOOSE j \in 1..Len(r.parents) : r.parents[j] = k + 1)
                               ELSE -1]
             /\ writers' = [k \in 0..(Len(r.balls) + Len(r.newBalls) - 1) |->
                               IF k < Len(r.balls)
                               THEN IF \E j \in 1..Len(r.processed) : r.processed[j] = k + 1
                                    THEN {k} ELSE {}
                               ELSE {r.parents[k + 1 - Len(r.balls)] - 1}]
             /\ granted' = [k \in 0..(Len(r.balls) + Len(r.newBalls) - 1) |->
                               IF k \in DOMAIN granted THEN granted[k] ELSE 1]
             /\ tookPrev' = Took
             /\ impact' = IF impact = 0 /\ \E j \in 1..Len(r.outcome) : r.outcome[j] # "none"
                          THEN tick + 1 ELSE impact
    /\ tick' = tick + 1
    /\ cfg' = JsConfig
    /\ UNCHANGED <<backend, build, canvas, events>>
    /\ UNCHANGED gpuVars
    /\ UNCHANGED overlapped

\* ------------------------------------------- WebGPUBackend (parallel)
\* const workgroupCount = Math.ceil(this.ballCount / 64)
WorkgroupCount(cached) == (cached + WorkgroupSize - 1) \div WorkgroupSize

\* invocations launched by dispatchWorkgroups(Math.ceil(this.ballCount / 64))
Dispatched(cached) == WorkgroupSize * WorkgroupCount(cached)

\* one command of the queue: a compute pass of n workgroups, a render pass of n
\* instances on a texture of the given size, the copy of the counter, the write of
\* a size to the config buffer or to the resolution buffer
Cmd(op, n, width, height) == [op |-> op, n |-> n, width |-> width, height |-> height]

\* var ball = balls[idx] ... Bounce Y: clear the flag, integrate, bounce
GpuMove(ball, c) ==
    LET was == ball.justSplit
        x1 == ball.x + ball.vx
        y1 == ball.y + ball.vy
        r == ball.radius
        lowX == x1 - r < 0
        highX == ~lowX /\ x1 + r > Width(c)
        lowY == y1 - r < 0
        highY == ~lowY /\ y1 + r > Height(c)
    IN  [ball |-> [ball EXCEPT
                     !.justSplit = FALSE,
                     !.x = IF lowX THEN r ELSE IF highX THEN Width(c) - r ELSE x1,
                     !.vx = IF lowX THEN Abs(@) ELSE IF highX THEN -Abs(@) ELSE @,
                     !.y = IF lowY THEN r ELSE IF highY THEN Height(c) - r ELSE y1,
                     !.vy = IF lowY THEN Abs(@) ELSE IF highY THEN -Abs(@) ELSE @],
         hit_x |-> lowX \/ highX,
         hit_y |-> lowY \/ highY,
         was_just_split |-> was]

\* var new_ball = ball; ... new_ball.just_split = 1u; seed is the value line 41
\* gave the private variable of the invocation
GpuNewBall(ball, hit_x, hit_y, seed) ==
    Only({ LET speed_factor == GpuSpeedFactor(random[1])
               jy == IF hit_x THEN GpuJitter(random[2]) ELSE 0
               jx == IF hit_y THEN GpuJitter(random[IF hit_x THEN 3 ELSE 2]) ELSE 0
               calls == 2 + (IF hit_x THEN 1 ELSE 0) + (IF hit_y THEN 1 ELSE 0)
           IN  [ball EXCEPT
                  !.vx = Nearest(Scaled(ball.vx, speed_factor) + jx),
                  !.vy = Nearest(Scaled(ball.vy, speed_factor) + jy),
                  !.color = GpuColor(random[calls]),
                  !.justSplit = TRUE] :
           random \in { << Random(seed, 1), Random(seed, 2), Random(seed, 3), Random(seed, 4) >> } })

InFlight == \E w \in DOMAIN pc : pc[w] # "done"

\* some invocation other than w has started and not yet returned
Busy(w) == \E v \in DOMAIN pc \ {w} : pc[v] \notin {"load", "done"}

\* the compute passes submitted and not yet completed
Unfinished ==
    Len(SelectSeq(queue, LAMBDA c : c.op = "dispatch")) + (IF InFlight THEN 1 ELSE 0)

\* the readBallCount() calls whose continuation has not run
Unresolved == Len(SelectSeq(queue, LAMBDA c : c.op = "copy")) + Len(pending)

\* WebGPUBackend.update(): the compute pass it submits
Update(q) == Append(q, Cmd("dispatch", WorkgroupCount(ballCount), 0, 0))

\* WebGPUBackend.render(): the render pass it submits, on the current texture of
\* the canvas
Render(q) == Append(q, Cmd("draw", ballCount, canvas.width, canvas.height))

\* the device takes up a compute pass: the invocations of its workgroups start
Dispatch ==
    /\ backend = "webgpu"
    /\ ~InFlight
    /\ queue # << >>
    /\ Head(queue).op = "dispatch"
    /\ queue' = Tail(queue)
    /\ cfg' = config
    /\ pc' = [w \in 0..(WorkgroupSize * Head(queue).n - 1) |-> "load"]
    /\ loc' = << >>
    /\ tick' = tick + 1
    /\ n0' = ball_count
    /\ pre' = balls
    /\ outcome' = << >>
    /\ childSlot' = << >>
    /\ writers' = [k \in DOMAIN balls |-> {}]
    /\ tookPrev' = Took
    /\ UNCHANGED <<backend, build, canvas, config, resolution, events,
                   balls, ball_count, ballCount, pending, granted>>
    /\ overlapped' = FALSE
    /\ drawn' = << >>
    /\ UNCHANGED <<host, impact>>

\* let current_count = atomicLoad(&ball_count); if (idx >= current_count) { return; }
Admitted(idx, current_count) == idx < current_count

\* the invocations of W take that statement together, as the lanes of a subgroup do
LoadCounts(W) ==
    /\ W # {}
    /\ \A w \in W : pc[w] = "load"
    /\ pc' = [w \in DOMAIN pc |-> IF w \in W
                                   THEN IF Admitted(w, ball_count) THEN "read" ELSE "done"
                                   ELSE pc[w]]
    /\ UNCHANGED <<backend, build, cfg, balls, ball_count, ballCount, pending, loc, tick,
                   n0, pre, outcome, childSlot, writers, granted, tookPrev>>
    /\ UNCHANGED <<surface, impact>>
    /\ overlapped' = (overlapped \/ (\E w \in W : Busy(w))
                                 \/ Cardinality({ w \in W : Admitted(w, ball_count) }) > 1)
    /\ UNCHANGED drawn
    /\ UNCHANGED host

LoadCount(w) == LoadCounts({w})

\* the words of a Ball
Words == {"x", "y", "vx", "vy", "radius", "color", "justSplit"}
\* the words a racing access can take from the other record: any of them where
\* the build moves a Ball word by word, all or none where it moves it whole
Tears == IF build = "words" THEN SUBSET Words ELSE { {}, Words }

\* record a with the words t taken from record b
Mix(a, b, t) ==
    [x |-> IF "x" \in t THEN b.x ELSE a.x,
     y |-> IF "y" \in t THEN b.y ELSE a.y,
     vx |-> IF "vx" \in t THEN b.vx ELSE a.vx,
     vy |-> IF "vy" \in t THEN b.vy ELSE a.vy,
     radius |-> IF "radius" \in t THEN b.radius ELSE a.radius,
     color |-> IF "color" \in t THEN b.color ELSE a.color,
     justSplit |-> IF "justSplit" \in t THEN b.justSplit ELSE a.justSplit]

Torn(a, b) == { Mix(a, b, t) : t \in Tears }

\* what a load of slot k can return: its content, and if an invocation has written
\* the slot in this dispatch, also words of the content it had when the dispatch began
Seen(k) == IF writers[k] = {} THEN { balls[k] } ELSE Torn(pre[k], balls[k])

\* what a load of balls[idx] can return; beyond the buffer the load yields zero
\* or the content of some slot inside the buffer
Loadable(idx) ==
    IF idx \in DOMAIN balls THEN Seen(idx)
    ELSE { ZeroBall } \cup UNION { Seen(k) : k \in DOMAIN balls }

\* var ball = balls[idx] and everything up to the first access to shared memory
ReadBall(w) ==
    /\ pc[w] = "read"
    /\ \E b \in Loadable(w) :
         LET m == GpuMove(b, cfg)
             new_radius == TimesRatio(m.ball.radius, cfg)
             decide == (m.hit_x \/ m.hit_y) /\ ~m.was_just_split
         IN  /\ loc' = (w :> [ball |-> IF decide /\ ~(new_radius >= One)
                                        THEN [m.ball EXCEPT !.radius = Max(@, One)]
                                        ELSE m.ball,
                               hit_x |-> m.hit_x, hit_y |-> m.hit_y,
                               new_radius |-> new_radius, current_total |-> 0, new_idx |-> 0])
                        @@ loc
             /\ pc' = [pc EXCEPT ![w] = IF decide /\ new_radius >= One THEN "total" ELSE "store"]
             /\ outcome' = (w :> (IF ~decide
                                  THEN IF m.hit_x \/ m.hit_y THEN "grace" ELSE "none"
                                  ELSE IF new_radius >= One THEN "candidate" ELSE "clamp"))
                           @@ outcome
             /\ childSlot' = (w :> -1) @@ childSlot
             /\ impact' = IF impact = 0 /\ (m.hit_x \/ m.hit_y) THEN tick ELSE impact
    /\ UNCHANGED <<backend, build, cfg, balls, ball_count, ballCount, pending, tick,
                   n0, pre, writers, granted, tookPrev>>
    /\ UNCHANGED surface
    /\ overlapped' = (overlapped \/ Busy(w))
    /\ UNCHANGED drawn
    /\ UNCHANGED host

\* variant: the cap test lets a counter equal to the cap through
GpuHasRoom_Inclusive(current_total, c) == current_total <= c.maxBalls

\* let current_total = atomicLoad(&ball_count); if (current_total < config.max_balls)
GpuHasRoom(current_total, c) == current_total < c.maxBalls

\* variant: the rollback sits in the branch of the failed cap test, where nothing
\* was reserved
LoadTotal_SubWhenFull(w) ==
    /\ pc[w] = "total"
    /\ IF GpuHasRoom(ball_count, cfg)
       THEN /\ loc' = [loc EXCEPT ![w].ball.radius = loc[w].new_radius,
                                  ![w].ball.justSplit = TRUE,
                                  ![w].current_total = ball_count]
            /\ pc' = [pc EXCEPT ![w] = "add"]
            /\ UNCHANGED <<outcome, ball_count>>
       ELSE /\ pc' = [pc EXCEPT ![w] = "store"]
            /\ outcome' = [outcome EXCEPT ![w] = "full"]
            /\ ball_count' = ball_count - 1
            /\ UNCHANGED loc
    /\ UNCHANGED <<backend, build, cfg, balls, ballCount, pending, tick,
                   n0, pre, childSlot, writers, granted, tookPrev>>
    /\ UNCHANGED <<surface, impact>>
    /\ overlapped' = (overlapped \/ Busy(w))
    /\ UNCHANGED drawn
    /\ UNCHANGED host

LoadTotal(w) ==
    /\ pc[w] = "total"
    /\ IF GpuHasRoom(ball_count, cfg)
       THEN /\ loc' = [loc EXCEPT ![w].ball.radius = loc[w].new_radius,
                                  ![w].ball.justSplit = TRUE,
                                  ![w].current_total = ball_count]
            /\ pc' = [pc EXCEPT ![w] = "add"]
            /\ UNCHANGED outcome
       ELSE /\ pc' = [pc EXCEPT ![w] = "store"]
            /\ outcome' = [outcome EXCEPT ![w] = "full"]
            /\ UNCHANGED loc
    /\ UNCHANGED <<backend, build, cfg, balls, ball_count, ballCount, pending, tick,
                   n0, pre, childSlot, writers, granted, tookPrev>>
    /\ UNCHANGED <<surface, impact>>
    /\ overlapped' = (overlapped \/ Busy(w))
    /\ UNCHANGED drawn
    /\ UNCHANGED host

\* variant: the old counter value itself is compared with the cap
Reserved_OffByOne(new_idx, c) == new_idx <= c.maxBalls

\* if (new_idx + 1u <= config.max_balls)
Reserved(new_idx, c) == new_idx + 1 <= c.maxBalls

\* variant: the counter is bumped from the value loaded for the cap test, not atomically
AtomicAdd_Stale(w) ==
    /\ pc[w] = "add"
    /\ ball_count' = loc[w].current_total + 1
    /\ loc' = [loc EXCEPT ![w].new_idx = loc[w].current_total]
    /\ pc' = [pc EXCEPT ![w] = IF loc[w].current_total + 1 <= cfg.maxBalls THEN "child" ELSE "sub"]
    /\ granted' = IF loc[w].current_total + 1 <= cfg.maxBalls
                  THEN [granted EXCEPT ![loc[w].current_total] = @ + 1]
                  ELSE granted
    /\ UNCHANGED <<backend, build, cfg, balls, ballCount, pending, tick,
                   n0, pre, outcome, childSlot, writers, tookPrev>>
    /\ UNCHANGED <<surface, impact>>
    /\ overlapped' = (overlapped \/ Busy(w))
    /\ UNCHANGED drawn
    /\ UNCHANGED host

\* let new_idx = atomicAdd(&ball_count, 1u)
AtomicAdd(w) ==
    /\ pc[w] = "add"
    /\ ball_count' = ball_count + 1
    /\ loc' = [loc EXCEPT ![w].new_idx = ball_count]
    /\ pc' = [pc EXCEPT ![w] = IF Reserved(ball_count, cfg) THEN "child" ELSE "sub"]
    /\ granted' = IF Reserved(ball_count, cfg) /\ ball_count \in DOMAIN granted
                  THEN [granted EXCEPT ![ball_count] = @ + 1]
                  ELSE granted
    /\ UNCHANGED <<backend, build, cfg, balls, ballCount, pending, tick,
                   n0, pre, outcome, childSlot, writers, tookPrev>>
    /\ UNCHANGED <<surface, impact>>
    /\ overlapped' = (overlapped \/ Busy(w))
    /\ UNCHANGED drawn
    /\ UNCHANGED host

\* what a store of record b to slot k can leave in the slot: b, and if another
\* invocation has written the slot in this dispatch, also words of what it left
Left(w, k, b) == IF writers[k] \ {w} = {} THEN { b } ELSE Torn(balls[k], b)

\* balls[new_idx] = new_ball
WriteChild(w) ==
    /\ pc[w] = "child"
    /\ \E new_ball \in { GpuNewBall(loc[w].ball, loc[w].hit_x, loc[w].hit_y, Seed(w, cfg)) } :
         \E b \in Left(w, loc[w].new_idx, new_ball) :
            /\ balls' = [balls EXCEPT ![loc[w].new_idx] = b]
    /\ pc' = [pc EXCEPT ![w] = "store"]
    /\ outcome' = [outcome EXCEPT ![w] = "split"]
    /\ childSlot' = [childSlot EXCEPT ![w] = loc[w].new_idx]
    /\ writers' = [writers EXCEPT ![loc[w].new_idx] = @ \cup {w}]
    /\ UNCHANGED <<backend, build, cfg, ball_count, ballCount, pending, loc, tick, n0, pre, granted, tookPrev>>
    /\ UNCHANGED <<surface, impact>>
    /\ overlapped' = (overlapped \/ Busy(w))
    /\ UNCHANGED drawn
    /\ UNCHANGED host

\* variant: a failed reservation goes back to the cap test and tries again
AtomicSub_Retry(w) ==
    /\ pc[w] = "sub"
    /\ ball_count' = ball_count - 1
    /\ pc' = [pc EXCEPT ![w] = "total"]
    /\ outcome' = [outcome EXCEPT ![w] = "rollback"]
    /\ UNCHANGED <<backend, build, cfg, balls, ballCount, pending, loc, tick,
                   n0, pre, childSlot, writers, granted, tookPrev>>
    /\ UNCHANGED <<surface, impact>>
    /\ overlapped' = (overlapped \/ Busy(w))
    /\ UNCHANGED drawn
    /\ UNCHANGED host

\* atomicSub(&ball_count, 1u)
AtomicSub(w) ==
    /\ pc[w] = "sub"
    /\ ball_count' = ball_count - 1
    /\ pc' = [pc EXCEPT ![w] = "store"]
    /\ outcome' = [outcome EXCEPT ![w] = "rollback"]
    /\ UNCHANGED <<backend, build, cfg, balls, ballCount, pending, loc, tick,
                   n0, pre, childSlot, writers, granted, tookPrev>>
    /\ UNCHANGED <<surface, impact>>
    /\ overlapped' = (overlapped \/ Busy(w))
    /\ UNCHANGED drawn
    /\ UNCHANGED host

\* the slots a store to balls[idx] can land in; beyond the buffer the store is
\* dropped or lands in some slot inside the buffer
Storable(idx) ==
    IF idx \in DOMAIN balls THEN { idx } ELSE { -1 } \cup DOMAIN balls

\* balls[idx] = ball
StoreBall(w) ==
    /\ pc[w] = "store"
    /\ \E k \in Storable(w) :
         IF k = -1
         THEN UNCHANGED <<balls, writers>>
         ELSE /\ \E b \in Left(w, k, loc[w].ball) :
                   /\ balls' = [balls EXCEPT ![k] = b]
              /\ writers' = [writers EXCEPT ![k] = @ \cup {w}]
    /\ pc' = [pc EXCEPT ![w] = "done"]
    /\ loc' = [v \in DOMAIN loc \ {w} |-> loc[v]]
    /\ UNCHANGED <<backend, build, cfg, ball_count, ballCount, pending, tick,
                   n0, pre, outcome, childSlot, granted, tookPrev>>
    /\ UNCHANGED <<surface, impact>>
    /\ overlapped' = (overlapped \/ Busy(w))
    /\ UNCHANGED drawn
    /\ UNCHANGED host

\* readBallCount(): the device takes up the copy of the counter, after the passes
\* submitted before it
ReadCopy ==
    /\ backend = "webgpu"
    /\ ~InFlight
    /\ queue # << >>
    /\ Head(queue).op = "copy"
    /\ queue' = Tail(queue)
    /\ pending' = Append(pending, ball_count)
    /\ UNCHANGED <<backend, build, canvas, cfg, config, resolution, events,
                   balls, ball_count, ballCount, pc, loc, tick,
                   n0, pre, outcome, childSlot, writers, granted, tookPrev>>
    /\ UNCHANGED <<overlapped, drawn>>
    /\ UNCHANGED <<host, impact>>

\* readBallCount() up to its await: the copy is submitted
ReadBallCount ==
    /\ backend = "webgpu"
    /\ events < MaxEvents
    /\ Explored(tick + Unfinished)
    /\ queue' = Append(queue, Cmd("copy", 0, 0, 0))
    /\ events' = events + 1
    /\ UNCHANGED <<backend, build, canvas, cfg, config, resolution,
                   balls, ball_count, ballCount, pending, pc, loc, tick,
                   n0, pre, outcome, childSlot, writers, granted, tookPrev>>
    /\ UNCHANGED <<overlapped, drawn>>
    /\ UNCHANGED <<host, impact>>

\* variant: the continuation drops the count it has read
ReadResolve_Dropped ==
    /\ pending # << >>
    /\ ballCount' = ballCount
    /\ pending' = Tail(pending)
    /\ UNCHANGED <<backend, build, cfg, balls, ball_count, pc, loc, tick,
                   n0, pre, outcome, childSlot, writers, granted, tookPrev>>
    /\ UNCHANGED <<surface, impact>>
    /\ UNCHANGED <<overlapped, drawn>>
    /\ UNCHANGED host

\* readBallCount(): mapAsync resolved, this.ballCount = count
ReadResolve ==
    /\ pending # << >>
    /\ ballCount' = Head(pending)
    /\ pending' = Tail(pending)
    /\ UNCHANGED <<backend, build, cfg, balls, ball_count, pc, loc, tick,
                   n0, pre, outcome, childSlot, writers, granted, tookPrev>>
    /\ UNCHANGED <<surface, impact>>
    /\ UNCHANGED <<overlapped, drawn>>
    /\ UNCHANGED host

\* the device takes up the writeBuffer of an updateResolution()
GpuWrite ==
    /\ backend = "webgpu"
    /\ ~InFlight
    /\ queue # << >>
    /\ Head(queue).op = "resolution"
    /\ queue' = Tail(queue)
    /\ resolution' = [width |-> Head(queue).width, height |-> Head(queue).height]
    /\ UNCHANGED config
    /\ UNCHANGED <<backend, build, canvas, cfg, events,
                   balls, ball_count, ballCount, pending, pc, loc, tick,
                   n0, pre, outcome, childSlot, writers, granted, tookPrev>>
    /\ UNCHANGED <<overlapped, drawn>>
    /\ UNCHANGED <<host, impact>>

\* ------------------------------------------------- rendering
\* `rgb(${r},${g},${b})` / the colour unpacked by the vertex shader
Rgb(color) == << (color \div 65536) % 256, (color \div 256) % 256, color % 256 >>

\* ctx.fillStyle = '#1a1a1a'
Background == << 26, 26, 26 >>

\* one canvas operation; i is the index of the particle it rasterizes, -1 if none;
\* for an arc w and h are both the radius
Op(kind, color, i, x, y, w, h) ==
    [op |-> kind, color |-> color, i |-> i, x |-> x, y |-> y, w |-> w, h |-> h]

SetStyle(color) == Op("fillStyle", color, -1, 0, 0, 0, 0)

\* ctx.fillStyle = '#1a1a1a'; ctx.fillRect(0, 0, this.canvas.width, this.canvas.height)
ClearCanvas(c) == << SetStyle(Background), Op("fillRect", Background, -1, 0, 0, Width(c), Height(c)) >>

\* variant: a population equal to the threshold is batched too
UseFastMode_Inclusive(n) == n >= FastModeAbove

\* const useFastMode = this.balls.length > 10000
UseFastMode(n) == n > FastModeAbove

\* the keys of colorGroups, in insertion order
ColorKeys(bs) ==
    LET first == SelectSeq([i \in 1..Len(bs) |-> i],
                           LAMBDA i : \A j \in 1..(i - 1) : bs[j].color # bs[i].color)
    IN  [k \in 1..Len(first) |-> bs[first[k]].color]

\* colorGroups.get(color), as indices into this.balls
ColorGroup(bs, color) ==
    SelectSeq([i \in 1..Len(bs) |-> i], LAMBDA i : bs[i].color = color)

\* for (const [color, balls] of colorGroups) { fillStyle; for (ball of balls) fillRect }
RECURSIVE DrawGroups(_, _)
DrawGroups(keys, bs) ==
    IF keys = << >> THEN << >>
    ELSE LET g == ColorGroup(bs, Head(keys))
         IN  << SetStyle(Rgb(Head(keys))) >>
             \o [k \in 1..Len(g) |->
                    Op("fillRect", Rgb(Head(keys)), g[k] - 1,
                       bs[g[k]].x - bs[g[k]].radius, bs[g[k]].y - bs[g[k]].radius,
                       bs[g[k]].radius * 2, bs[g[k]].radius * 2)]
             \o DrawGroups(Tail(keys), bs)

\* for (const ball of this.balls) { fillStyle; beginPath; arc; fill; closePath }
DrawCircles(bs) ==
    [k \in 1..(2 * Len(bs)) |->
        LET ball == bs[(k + 1) \div 2]
        IN  IF k % 2 = 1 THEN SetStyle(Rgb(ball.color))
            ELSE Op("arc", Rgb(ball.color), (k \div 2) - 1, ball.x, ball.y, ball.radius, ball.radius)]

\* JSBackend.render(ctx)
JsRenderOps(bs, c) ==
    ClearCanvas(c) \o (IF UseFastMode(Len(bs)) THEN DrawGroups(ColorKeys(bs), bs)
                       ELSE DrawCircles(bs))

\* a coordinate of the world on a texture `size` wide under the resolution `res`:
\* clipPos = (worldPos / resolution) * 2.0 - 1.0, and clip space covers the texture
Pixel(v, size, res) == (v * size) \div res

\* renderPass.draw(6, instances, 0, 0): one quad per instance, read from
\* balls[instanceIndex], corners at pos +- radius; the pass begins with a clear
GpuRenderOps(buffer, instances, texture, res) ==
    << Op("clear", << 26, 26, 26 >>, -1, 0, 0, Width(texture), Height(texture)) >>
    \o [k \in 1..instances |->
           Op("quad", Rgb(buffer[k - 1].color), k - 1,
              Pixel(buffer[k - 1].x - buffer[k - 1].radius, texture.width, res.width),
              Pixel(buffer[k - 1].y - buffer[k - 1].radius, texture.height, res.height),
              Pixel(buffer[k - 1].radius * 2, texture.width, res.width),
              Pixel(buffer[k - 1].radius * 2, texture.height, res.height))]

\* the device takes up a render pass, after the passes submitted before it
GpuRender ==
    /\ backend = "webgpu"
    /\ ~InFlight
    /\ queue # << >>
    /\ Head(queue).op = "draw"
    /\ queue' = Tail(queue)
    /\ drawn' = GpuRenderOps(balls, Head(queue).n, Head(queue), resolution)
    /\ UNCHANGED <<backend, build, canvas, cfg, config, resolution, events,
                   balls, ball_count, ballCount, pending, pc, loc, tick,
                   n0, pre, outcome, childSlot, writers, granted, tookPrev, overlapped>>
    /\ UNCHANGED <<host, impact>>

\* ------------------------------------------------- the tasks of the host
\* a callback of loop() on the js path: backend.update(); backend.render(ctx)
JsFrame ==
    /\ backend = "js"
    /\ Explored(tick)
    /\ JsStep
    /\ drawn' = JsRenderOps(balls', canvas)
    /\ UNCHANGED host

\* variant: the callback does nothing while a readBallCount() is outstanding
GpuFrame_AwaitsRead ==
    /\ backend = "webgpu"
    /\ Unresolved = 0
    /\ Explored(tick + Unfinished)
    /\ queue' = Render(Update(queue))
    /\ UNCHANGED <<backend, build, canvas, cfg, config, resolution, events,
                   balls, ball_count, ballCount, pending, pc, loc, tick,
                   n0, pre, outcome, childSlot, writers, granted, tookPrev>>
    /\ UNCHANGED <<overlapped, drawn>>
    /\ UNCHANGED <<host, impact>>

\* a callback of loop() on the webgpu path: backend.update(); backend.render()
GpuFrame ==
    /\ backend = "webgpu"
    /\ Explored(tick + Unfinished)
    /\ queue' = Render(Update(queue))
    /\ UNCHANGED <<backend, build, canvas, cfg, config, resolution, events,
                   balls, ball_count, ballCount, pending, pc, loc, tick,
                   n0, pre, outcome, childSlot, writers, granted, tookPrev>>
    /\ UNCHANGED <<overlapped, drawn>>
    /\ UNCHANGED <<host, impact>>

\* resize(): canvas.width = window.innerWidth; canvas.height = window.innerHeight;
\* if (backend && currentBackendType === 'webgpu') backend.updateResolution(),
\* which throws before it writes on an object that has no device yet or is of
\* another class
Resize ==
    /\ events < MaxEvents
    /\ Explored(tick + Unfinished)
    /\ \E size \in Sizes \ {canvas} :
         /\ canvas' = size
         /\ queue' = IF host.currentBackendType = "webgpu" /\ host.backend = [kind |-> "webgpu", ready |-> TRUE]
                     THEN Append(queue, Cmd("resolution", 0, size.width, size.height))
                     ELSE queue
    /\ events' = events + 1
    /\ UNCHANGED <<backend, build, cfg, config, resolution,
                   balls, ball_count, ballCount, pending, pc, loc, tick,
                   n0, pre, outcome, childSlot, writers, granted, tookPrev>>
    /\ UNCHANGED <<overlapped, drawn>>
    /\ UNCHANGED <<host, impact>>

\* ------------------------------------------------- main.js: the host loop
\* Time.  performance.now() and the timestamp of a callback are doubles, in
\* milliseconds.  A time is held exactly, as a natural number of units of 2^-52 ms
\* written in Limbs digits of base Base, the most significant first: 0 and every
\* double from 1.0 up to 2^16 is such a number.  The result of an operation of the
\* code is rounded as the code rounds it: to 53 significant bits, ties to even.
Base == 2 ^ 15
Limbs == 75 \div 15

\* n milliseconds, n a natural number: n * 2^52 = n * 128 * Base^3
Ms(n) ==
    [i \in 1..Limbs |-> IF i = 1 THEN (n * 128) \div Base
                        ELSE IF i = 2 THEN (n * 128) % Base ELSE 0]

\* a < b
Before(a, b) == \E i \in 1..Limbs : a[i] < b[i] /\ \A j \in 1..(i - 1) : a[j] = b[j]

\* the digits 1..i of a - b - borrow (a >= b)
RECURSIVE Minus(_, _, _, _)
Minus(a, b, i, borrow) ==
    IF i = 0 THEN << >>
    ELSE LET d == a[i] - b[i] - borrow
         IN  Append(Minus(a, b, i - 1, IF d < 0 THEN 1 ELSE 0), (d + Base) % Base)

\* the digits 1..i of a + b + carry
RECURSIVE Plus(_, _, _, _)
Plus(a, b, i, carry) ==
    IF i = 0 THEN << >>
    ELSE LET d == a[i] + b[i] + carry
         IN  Append(Plus(a, b, i - 1, d \div Base), d % Base)

\* the number of bits of a digit
RECURSIVE Bits(_)
Bits(d) == IF d = 0 THEN 0 ELSE 1 + Bits(d \div 2)

\* the number of significant bits of a
Significant(a) ==
    IF \A i \in 1..Limbs : a[i] = 0 THEN 0
    ELSE LET i == CHOOSE k \in 1..Limbs : a[k] # 0 /\ \A j \in 1..(k - 1) : a[j] = 0
         IN  15 * (Limbs - i) + Bits(a[i])

\* a as a double: rounded to 53 significant bits, ties to even; inexact says
\* that a stands for a value slightly above a
Double(a, inexact) ==
    LET s == Significant(a) - 53
    IN  IF s <= 0 THEN a
        ELSE LET unit == 2 ^ s
                 low == IF s = 15 THEN a[Limbs] ELSE a[Limbs] % unit
                 odd == IF s = 15 THEN a[Limbs - 1] % 2 = 1 ELSE (a[Limbs] \div unit) % 2 = 1
                 up == low * 2 > unit \/ (low * 2 = unit /\ (inexact \/ odd))
                 down == [a EXCEPT ![Limbs] = @ - low]
                 step == [i \in 1..Limbs |-> IF s = 15 THEN (IF i = Limbs - 1 THEN 1 ELSE 0)
                                             ELSE (IF i = Limbs THEN unit ELSE 0)]
             IN  IF up THEN Plus(down, step, Limbs, 0) ELSE down

\* a - b of two doubles a >= b
Difference(a, b) == Double(Minus(a, b, Limbs, 0), FALSE)

\* a % m of two doubles, m > 0: the remainder is exact
RECURSIVE Modulo(_, _)
Modulo(a, m) ==
    IF Before(a, m) THEN a
    ELSE LET r == Modulo(a, Plus(m, m, Limbs, 0))
         IN  IF Before(r, m) THEN r ELSE Minus(r, m, Limbs, 0)

\* the digits i..Limbs of the quotient of a by the natural number n, rest carried in
RECURSIVE Quotient(_, _, _, _)
Quotient(a, n, i, rest) ==
    IF i > Limbs THEN << >>
    ELSE << (rest * Base + a[i]) \div n >> \o Quotient(a, n, i + 1, (rest * Base + a[i]) % n)

\* what the division by n leaves of the digits 1..i of a
RECURSIVE Rest(_, _, _)
Rest(a, n, i) == IF i = 0 THEN 0 ELSE (Rest(a, n, i - 1) * Base + a[i]) % n

\* a / n of a double a and a whole number n
Ratio(a, n) == Double(Quotient(a, n, 1, 0), Rest(a, n, Limbs) # 0)

\* frameInterval = 1000 / targetFPS, for the rates the FPS buttons set
FrameIntervals == [targetFPS \in {60, 120} |-> Ratio(Ms(Second), targetFPS)]
FrameInterval(targetFPS) == FrameIntervals[targetFPS]

\* the timestamp of the k-th refresh of a display that refreshes as often as the
\* default of targetFPS asks for, the page being loaded at refresh 0
Stamps == [k \in 0..MaxTime |-> Ratio(Ms(Second * k), TargetFPS)]
Stamp(k) == Stamps[k]

\* the record `host` holds
\*   gpu, wasmModule      what the browser offers: the fate of backend.init() ("ok",
\*                        "unsupported": it throws before the canvas context is taken,
\*                        "broken": it throws after), whether the WASM module loaded
\*   backend, object      the object in the variable `backend`: its class and whether
\*                        its initialisation has finished; its number among the
\*                        objects constructed so far (objects)
\*   element, contexts    the canvas element in the variable `canvas`, and for every
\*                        canvas element created so far the context type it is bound to
\*   currentBackendType, animationFrameId (0 for null), lastRenderTime, targetFPS,
\*   lastBallCountUpdate  the variables of run() of the same names
\*   callbacks, running   handles of the requestAnimationFrame callbacks registered for
\*                        the next frame / of the current frame and not yet run
\*   nextHandle           the next handle
\*   frame, now           the current frame: the refresh of the display it belongs to,
\*                        and its timestamp
\*   awaiting, startup    the calls of initWebGPU() suspended at `await backend.init()`
\*                        (who called, the object and the canvas element of the call),
\*                        and how far the fallback at the end of run() has come
\*   clicks               number of button clicks so far
\*   tried, calls, worked, stopped, lastWorked, elapsed, interval
\*                        history: the backends tried at startup; the backend calls of
\*                        the last loop callback; the callbacks of this frame that called
\*                        update(); stopAnimation() returned and startAnimation() has not
\*                        been called since; the last frame that passed the limiter
\*                        (-1: none), and for the last callback that passed it the time
\*                        since the frame that passed it before, and its frameInterval
HostStart(gpu, wasmModule) ==
    [gpu |-> gpu, wasmModule |-> wasmModule,
     backend |-> [kind |-> "none", ready |-> FALSE], object |-> 0, objects |-> 0,
     element |-> 1, contexts |-> << "none" >>,
     currentBackendType |-> "none",
     animationFrameId |-> 0, callbacks |-> << >>, running |-> << >>, nextHandle |-> 1,
     frame |-> 0, now |-> Ms(0), lastRenderTime |-> Ms(0), targetFPS |-> TargetFPS,
     lastBallCountUpdate |-> Ms(0),
     awaiting |-> << >>, startup |-> "todo", clicks |-> 0,
     tried |-> << >>, calls |-> << >>, worked |-> 0, stopped |-> FALSE,
     lastWorked |-> -1, elapsed |-> Ms(0), interval |-> Ms(0)]

Without(handles, id) == SelectSeq(handles, LAMBDA x : x # id)

\* function stopAnimation()
StopAnimation(h) ==
    IF h.animationFrameId # 0
    THEN [h EXCEPT !.callbacks = Without(@, h.animationFrameId),
                   !.running = Without(@, h.animationFrameId),
                   !.animationFrameId = 0,
                   !.stopped = TRUE]
    ELSE [h EXCEPT !.stopped = TRUE]

\* animationFrameId = requestAnimationFrame(loop)
RequestFrame(h) ==
    [h EXCEPT !.callbacks = Append(@, h.nextHandle),
              !.animationFrameId = h.nextHandle,
              !.nextHandle = @ + 1]

\* function startAnimation(); performance.now() is read as the time of the latest frame
StartAnimation(h) ==
    RequestFrame([h EXCEPT !.lastBallCountUpdate = h.now, !.stopped = FALSE])

\* function recreateCanvas()
RecreateCanvas(h) ==
    [h EXCEPT !.element = Len(h.contexts) + 1, !.contexts = Append(@, "none")]

\* backend = new ...: the variable holds a new object
Assign(h, kind, ready) ==
    [h EXCEPT !.backend = [kind |-> kind, ready |-> ready],
              !.object = h.objects + 1,
              !.objects = @ + 1]

\* initWebGPU() up to `await backend.init()`; who is the caller that waits for it
InitWebGPUBegin(h, who) ==
    LET h1 == StopAnimation(h)
        h2 == IF h1.currentBackendType \in {"wasm", "js"} THEN RecreateCanvas(h1) ELSE h1
        h3 == Assign(h2, "webgpu", FALSE)
    IN  [h3 EXCEPT !.awaiting = Append(@, [who |-> who, object |-> h3.object,
                                           element |-> h3.element])]

\* WebGPUBackend.init() of the suspended call p: does it return (TRUE) or throw
\* (FALSE); getContext('webgpu') is null on a canvas that already has a 2d context
InitSucceeds(h, p) == h.gpu = "ok" /\ h.contexts[p.element] # "2d"

\* initWebGPU() from the point where `await backend.init()` settles, for the k-th
\* of the suspended calls; the object that has finished its init() is the one the
\* call constructed, the variable `backend` may hold another by now
InitWebGPUEnd(h, k) ==
    LET p == h.awaiting[k]
        h1 == [h EXCEPT !.awaiting = SubSeq(@, 1, k - 1) \o SubSeq(@, k + 1, Len(@)),
                        !.contexts[p.element] = IF h.gpu # "unsupported" /\ @ # "2d"
                                                THEN "webgpu" ELSE @]
    IN  IF InitSucceeds(h, p)
        THEN [h |-> StartAnimation([h1 EXCEPT !.backend.ready = (@ \/ h.object = p.object),
                                              !.currentBackendType = "webgpu"]),
              ok |-> TRUE]
        ELSE [h |-> h1, ok |-> FALSE]

\* initWASM() and initJS(): which is "wasm" or "js"; getContext('2d') is null on a
\* canvas that has a webgpu context
Init2D(h, which) ==
    IF which = "wasm" /\ ~h.wasmModule
    THEN [h |-> h, ok |-> FALSE]
    ELSE LET h1 == StopAnimation(h)
             h2 == IF h1.currentBackendType = "webgpu" THEN RecreateCanvas(h1) ELSE h1
         IN  IF h2.contexts[h2.element] = "webgpu"
             THEN [h |-> h2, ok |-> FALSE]
             ELSE [h |-> StartAnimation([Assign(h2, which, TRUE) EXCEPT
                                             !.contexts[h2.element] = "2d",
                                             !.currentBackendType = which]),
                   ok |-> TRUE]

Attempt(h, name, r) == [r.h EXCEPT !.tried = Append(h.tried, [name |-> name, ok |-> r.ok])]

\* variant: the fallback does not look at the outcome of the attempt before
Fallback_Unconditional(h, initialized) ==
    LET w == Init2D(h, "wasm")
        h1 == Attempt(h, "wasm", w)
        j == Init2D(h1, "js")
    IN  [Attempt(h1, "js", j) EXCEPT !.startup = "done"]

\* if (!initialized) { initialized = await initWASM(); }
\* if (!initialized) { initialized = await initJS(); }
Fallback(h, initialized) ==
    IF initialized THEN [h EXCEPT !.startup = "done"]
    ELSE LET w == Init2D(h, "wasm")
             h1 == Attempt(h, "wasm", w)
         IN  IF w.ok THEN [h1 EXCEPT !.startup = "done"]
             ELSE [Attempt(h1, "js", Init2D(h1, "js")) EXCEPT !.startup = "done"]

\* run() from `let initialized = await initWebGPU()` to its end, in a browser in
\* which the backend of that kind is the first to initialise
Started(kind) ==
    LET h == InitWebGPUBegin(HostStart(IF kind = "webgpu" THEN "ok" ELSE "unsupported",
                                       kind = "wasm"),
                             "startup")
        r == InitWebGPUEnd(h, 1)
    IN  Fallback(Attempt(h, "webgpu", r), r.ok)

\* one call on the object in `backend`, with what the variables held at the call
Call(h, op) ==
    [op |-> op, kind |-> h.backend.kind, ready |-> h.backend.ready,
     type |-> h.currentBackendType, stopped |-> h.stopped]

\* lastRenderTime = currentTime - (deltaTime % frameInterval)
Mark(h, deltaTime) == Difference(h.now, Modulo(deltaTime, FrameInterval(h.targetFPS)))

\* currentTime - lastBallCountUpdate >= 100
ReadDue(h) == ~Before(Difference(h.now, h.lastBallCountUpdate), Ms(BallCountPeriod))

\* the three branches of loop() on currentBackendType.  update() on an object
\* whose init() has not finished throws, which ends the callback; so does render()
\* of the webgpu branch on an object of another class (a JSBackend draws on the
\* context it is given, and is given none)
Work(h) ==
    IF h.currentBackendType = "none" THEN RequestFrame([h EXCEPT !.calls = << >>])
    ELSE IF ~h.backend.ready
    THEN [h EXCEPT !.calls = << Call(h, "update") >>, !.worked = @ + 1]
    ELSE IF h.backend.kind # h.currentBackendType
    THEN [h EXCEPT !.calls = << Call(h, "update"), Call(h, "render") >>, !.worked = @ + 1]
    ELSE LET read == h.currentBackendType = "webgpu" /\ ReadDue(h)
         IN  RequestFrame(
                 [h EXCEPT !.calls = << Call(h, "update"), Call(h, "render"),
                                        Call(h, IF read THEN "readBallCount" ELSE "getBallCount") >>,
                           !.worked = @ + 1,
                           !.lastBallCountUpdate = IF read THEN h.now ELSE @])

\* function loop(currentTime), run for the first pending callback of the frame
LoopBody(h) ==
    LET h1 == RequestFrame([h EXCEPT !.running = Tail(@)])
        deltaTime == Difference(h.now, h.lastRenderTime)
    IN  IF Before(deltaTime, FrameInterval(h.targetFPS))
        THEN [h1 EXCEPT !.calls = << >>]
        ELSE Work([h1 EXCEPT !.lastRenderTime = Mark(h, deltaTime),
                             !.elapsed = IF h.lastWorked < 0 THEN deltaTime
                                         ELSE Difference(h.now, Stamp(h.lastWorked)),
                             !.lastWorked = h.frame,
                             !.interval = FrameInterval(h.targetFPS)])

\* the object new JSBackend(canvas, maxBalls, splitRatio) or
\* new WebGPUBackend(canvas, maxBalls, splitRatio) followed by init() makes; of
\* the World of the WASM module, which is not among the sources, nothing is held
Fresh(kind, c) ==
    LET slots == IF kind = "webgpu" THEN 0..(c.maxBalls - 1)
                 ELSE IF kind = "js" THEN {0} ELSE {}
        first == IF kind = "js" THEN << SeedBall(c) >>
                 ELSE IF kind = "webgpu"
                 THEN [k \in slots |-> IF k = 0 THEN SeedBall(c) ELSE ZeroBall]
                 ELSE << >>
    IN  [balls |-> first,
         ball_count |-> IF kind = "webgpu" THEN 1 ELSE 0,
         ballCount |-> IF kind = "webgpu" THEN 1 ELSE 0,
         writers |-> [k \in slots |-> {}],
         granted |-> [k \in slots |-> IF k = 0 THEN 1 ELSE 0]]

Constructed ==
    /\ balls = Fresh(backend, cfg).balls
    /\ ball_count = Fresh(backend, cfg).ball_count
    /\ ballCount = Fresh(backend, cfg).ballCount
    /\ pending = << >>
    /\ pc = << >>
    /\ loc = << >>
    /\ tick = 0
    /\ n0 = 1
    /\ pre = balls
    /\ outcome = << >>
    /\ childSlot = << >>
    /\ writers = Fresh(backend, cfg).writers
    /\ granted = Fresh(backend, cfg).granted
    /\ tookPrev = {}
    /\ overlapped = FALSE
    /\ drawn = << >>
    /\ canvas = [width |-> cfg.width, height |-> cfg.height]
    /\ config = cfg
    /\ resolution = canvas
    /\ queue = << >>
    /\ events = 0
    /\ impact = 0

\* the page with the backend of its startup active and its first frame requested;
\* the parallel stepper is explored with the caps of Caps and below
Init ==
    /\ backend \in {"js", "webgpu"}
    /\ cfg \in Configs
    /\ backend = "webgpu" => cfg.maxBalls <= 3
    /\ build \in {"whole", "words"}
    /\ build = "words" => (backend = "webgpu" /\ cfg.maxBalls <= MixCap)
    /\ Constructed
    /\ host = Started(backend)

\* the counter of a dispatch stays below Reach: an invocation passes the cap test
\* only while the counter is below the cap, so its index is at most max_balls - 2,
\* and it adds one to the counter once
Reach(c) == Max(1, 2 * c.maxBalls - 2)

\* the invocations at or above Reach: all that any of them does is the atomicLoad
\* of line 35 and the return of line 38
Upper == { w \in DOMAIN pc : w >= Reach(cfg) }
\* the invocations at or above Reach run first and in lockstep
Turn(w) == w < Reach(cfg) /\ \A v \in Upper : pc[v] = "done"

\* a task of the host that overlaps with the work of the device is placed after it
HostTurn == queue = << >> /\ ~InFlight


Next ==
    \/ JsFrame
    \/ HostTurn /\ GpuFrame
    \/ HostTurn /\ Resize
    \/ HostTurn /\ ReadBallCount
    \/ HostTurn /\ ReadResolve
    \/ Dispatch
    \/ LoadCounts(Upper)
    \/ \E w \in DOMAIN pc : LoadCount(w) /\ Turn(w)
    \/ \E w \in DOMAIN pc : ReadBall(w) /\ Turn(w)
    \/ \E w \in DOMAIN pc : LoadTotal(w) /\ Turn(w)
    \/ \E w \in DOMAIN pc : AtomicAdd(w) /\ Turn(w)
    \/ \E w \in DOMAIN pc : WriteChild(w) /\ Turn(w)
    \/ \E w \in DOMAIN pc : AtomicSub(w) /\ Turn(w)
    \/ \E w \in DOMAIN pc : StoreBall(w) /\ Turn(w)
    \/ GpuRender
    \/ ReadCopy
    \/ GpuWrite

Spec == Init /\ [][Next]_vars

\* the long run of Scenario A on the sequential backend: loop() calls update()
\* and render() once per animation frame, and the frames keep coming; the window
\* may be resized before the first of them
InitA ==
    /\ Init
    /\ backend = "js"
    /\ cfg = ScenarioA

JsRun ==
    /\ tick < RunTicks
    /\ JsStep
    /\ drawn' = JsRenderOps(balls', canvas)
    /\ UNCHANGED host

NextA == JsRun \/ (tick < ResizeWithin /\ Resize)

\* requestAnimationFrame(loop): the next frame comes, and with it the next update();
\* in this run a step is possible exactly if the tick can advance
Frame ==
    /\ tick < RunTicks
    /\ tick' = tick + 1

SpecA == InitA /\ [][NextA]_vars /\ WF_tick(Frame)

\* ------------------------------------------------- render() of a large population
\* this.balls with n particles in k colours, the seed's colour first, inside the
\* arena of Scenario A
Crowd(n, k) ==
    [i \in 1..n |->
        [x |-> (60 + (i % 680)) * Scale, y |-> (60 + (i % 480)) * Scale,
         vx |-> SeedVx, vy |-> SeedVy, radius |-> (1 + (i % 59)) * Scale,
         color |-> IF (i - 1) % k = 0 THEN SeedColor ELSE ColorOf((((i - 1) % k) * Scale) \div 4),
         justSplit |-> FALSE]]

\* a JSBackend whose cap admits the populations around the threshold of render(),
\* holding one of them; the updates that led to it are not part of the state
InitR ==
    /\ backend = "js"
    /\ build = "whole"
    /\ cfg = [ScenarioA EXCEPT !.maxBalls = 2 * FastModeAbove]
    /\ \E n \in { 1, FastModeAbove - 1, FastModeAbove, FastModeAbove + 1 } :
         \E k \in 1..MaxColors : balls = Crowd(n, k)
    /\ ball_count = 0
    /\ ballCount = 0
    /\ pending = << >>
    /\ pc = << >>
    /\ loc = << >>
    /\ tick = 0
    /\ n0 = Len(balls)
    /\ pre = balls
    /\ outcome = << >>
    /\ childSlot = << >>
    /\ writers = << >>
    /\ granted = << >>
    /\ tookPrev = {}
    /\ overlapped = FALSE
    /\ drawn = << >>
    /\ canvas = [width |-> cfg.width, height |-> cfg.height]
    /\ config = cfg
    /\ resolution = canvas
    /\ queue = << >>
    /\ events = 0
    /\ impact = 0
    /\ host = HostStart("ok", TRUE)

\* JSBackend.render(ctx)
JsRender ==
    /\ backend = "js"
    /\ drawn' = JsRenderOps(balls, canvas)
    /\ UNCHANGED <<backend, build, canvas, cfg, config, resolution, queue, events,
                   balls, ball_count, ballCount, pending, pc, loc, tick,
                   n0, pre, outcome, childSlot, writers, granted, tookPrev>>
    /\ UNCHANGED overlapped
    /\ UNCHANGED <<host, impact>>

NextR == JsRender \/ Resize

SpecR == InitR /\ [][NextR]_vars

\* ------------------------------------------------- main.js as a state machine
simVars == <<backend, build, canvas, cfg, config, resolution, queue, events, impact,
             balls, ball_count, ballCount, pending, pc, loc, tick,
             n0, pre, outcome, childSlot, writers, granted, tookPrev, overlapped, drawn>>

GpuFates == {"ok", "unsupported", "broken"}
\* refreshes of the display between two animation frames (the browser leaves out
\* a refresh when the page is late)
FrameGaps == {1, 2, 3}

\* what run() passes to the constructors: MAX_BALLS, SPLIT_RATIO = 0.8, and the
\* canvas, from which the object takes the width and the height
PageConfig(size) ==
    [width |-> size.width, height |-> size.height, maxBalls |-> MAX_BALLS, num |-> 4, den |-> 5]

\* run() up to the fallback at its end: the canvas has the size of the window,
\* `backend` is null, nothing is initialised, no frame requested
InitH ==
    /\ backend = "none"
    /\ build = "whole"
    /\ cfg = PageConfig([width |-> ScenarioA.width, height |-> ScenarioA.height])
    /\ Constructed
    /\ host \in { HostStart(g, w) : g \in GpuFates, w \in BOOLEAN }

\* backend = new ...: the variable `backend` holds a new object of that class.  A
\* JSBackend has its seed from the constructor; a WebGPUBackend has this.ballCount
\* = 1 and no buffer, no device and no queue before its init() has run
Construct(kind) ==
    LET c == PageConfig(canvas)
        o == Fresh(IF kind = "webgpu" THEN "none" ELSE kind, c)
    IN  /\ backend' = kind
        /\ cfg' = c
        /\ config' = IF kind = "webgpu" THEN << >> ELSE c
        /\ resolution' = IF kind = "webgpu" THEN << >> ELSE canvas
        /\ queue' = << >>
        /\ impact' = 0
        /\ balls' = o.balls
        /\ ball_count' = o.ball_count
        /\ ballCount' = IF kind = "webgpu" THEN 1 ELSE o.ballCount
        /\ pending' = << >>
        /\ pc' = << >>
        /\ loc' = << >>
        /\ tick' = 0
        /\ n0' = 1
        /\ pre' = o.balls
        /\ outcome' = << >>
        /\ childSlot' = << >>
        /\ writers' = o.writers
        /\ granted' = o.granted
        /\ tookPrev' = {}
        /\ overlapped' = FALSE
        /\ drawn' = << >>
        /\ UNCHANGED <<build, canvas, events>>

\* await this.initBuffers() at the end of WebGPUBackend.init(), with the
\* updateConfig() and updateResolution() in it: the buffers of the object, written
\* from the canvas as it is then.  Of the MAX_BALLS records of the ballBuffer
\* record 0 is held: in this machine the passes stay in the queue of the device
InitBuffers ==
    LET c == PageConfig(canvas)
        o == Fresh("webgpu", [c EXCEPT !.maxBalls = 1])
    IN  /\ cfg' = c
        /\ config' = c
        /\ resolution' = canvas
        /\ balls' = o.balls
        /\ ball_count' = o.ball_count
        /\ pre' = o.balls
        /\ writers' = o.writers
        /\ granted' = o.granted
        /\ UNCHANGED <<backend, build, canvas, queue, events, impact, ballCount, pending,
                       pc, loc, tick, n0, outcome, childSlot, tookPrev, overlapped, drawn>>

\* the effect of a task of run() on the object in `backend`: a new one if the
\* task has assigned the variable, its buffers if its init() has returned
Assigned ==
    IF host'.object # host.object THEN Construct(host'.backend.kind)
    ELSE IF host'.backend.ready /\ ~host.backend.ready THEN InitBuffers
    ELSE UNCHANGED simVars

\* let initialized = await initWebGPU(), up to the await inside it
StartupBegin ==
    /\ host.startup = "todo"
    /\ host' = [InitWebGPUBegin(host, "startup") EXCEPT !.startup = "awaiting"]
    /\ Assigned

\* a backend.init() settles: the rest of that initWebGPU(), and at startup the
\* rest of run()
InitSettles ==
    /\ host.running = << >>
    /\ \E k \in DOMAIN host.awaiting :
         LET r == InitWebGPUEnd(host, k)
         IN  host' = IF host.awaiting[k].who = "startup"
                     THEN Fallback(Attempt(host, "webgpu", r), r.ok)
                     ELSE r.h
    /\ Assigned

\* the browser starts an animation frame: the callbacks registered so far will run
BeginFrame ==
    /\ host.running = << >>
    /\ host.callbacks # << >>
    /\ \E gap \in FrameGaps :
         /\ host.frame + gap <= MaxTime
         /\ host' = [host EXCEPT !.frame = @ + gap,
                                 !.now = Stamp(host.frame + gap),
                                 !.running = host.callbacks,
                                 !.callbacks = << >>,
                                 !.worked = 0]
    /\ UNCHANGED simVars

\* the calls of the callback on a WebGPUBackend: update(), render() and, when
\* due, readBallCount() up to its await
GpuCalls(calls) ==
    /\ queue' = IF calls[Len(calls)].op = "readBallCount"
                THEN Append(Render(Update(queue)), Cmd("copy", 0, 0, 0))
                ELSE Render(Update(queue))
    /\ events' = IF calls[Len(calls)].op = "readBallCount" THEN events + 1 ELSE events
    /\ UNCHANGED <<backend, build, canvas, cfg, config, resolution, impact,
                   balls, ball_count, ballCount, pending, pc, loc, tick,
                   n0, pre, outcome, childSlot, writers, granted, tookPrev, overlapped, drawn>>

\* the calls of the callback on a JSBackend: update() and, unless the callback
\* ended before it, render(ctx)
JsCalls(calls) ==
    /\ Explored(tick)
    /\ JsStep
    /\ drawn' = IF Len(calls) > 2 THEN JsRenderOps(balls', canvas) ELSE drawn

\* the browser runs the next callback of the frame: loop(currentTime)
Loop ==
    /\ host.running # << >>
    /\ host' = LoopBody(host)
    /\ LET calls == LoopBody(host).calls
       IN  IF calls # << >> /\ calls[1].ready /\ calls[1].kind = "js" THEN JsCalls(calls)
           ELSE IF calls # << >> /\ calls[1].ready /\ calls[1].kind = "webgpu" THEN GpuCalls(calls)
           ELSE UNCHANGED simVars

\* btnWebGPU click
ClickWebGPU ==
    /\ host.startup # "todo" /\ host.running = << >> /\ host.clicks < MaxClicks
    /\ host.currentBackendType # "webgpu"
    /\ host' = InitWebGPUBegin([host EXCEPT !.clicks = @ + 1], "click")
    /\ Assigned

\* btnWASM click, btnJS click
Click2D ==
    /\ host.startup # "todo" /\ host.running = << >> /\ host.clicks < MaxClicks
    /\ \E which \in {"wasm", "js"} :
         /\ host.currentBackendType # which
         /\ host' = Init2D([host EXCEPT !.clicks = @ + 1], which).h
    /\ Assigned

\* btnFPS60 click, btnFPS120 click
ClickFPS ==
    /\ host.startup # "todo" /\ host.running = << >> /\ host.clicks < MaxClicks
    /\ \E fps \in {60, 120} :
         host' = [host EXCEPT !.targetFPS = fps, !.clicks = @ + 1]
    /\ UNCHANGED simVars

\* a handler or a callback runs to completion: the window is resized, a button
\* clicked, an init() settled between two animation frames; the window is
\* resized as one of the first MaxResizes events of the host
NextH ==
    \/ StartupBegin
    \/ InitSettles
    \/ BeginFrame
    \/ Loop
    \/ ClickWebGPU
    \/ Click2D
    \/ ClickFPS
    \/ host.running = << >> /\ events < MaxResizes /\ Resize

SpecH == InitH /\ [][NextH]_vars

\* ------------------------------------------------- views of both backends
\* the population count (slots are 0-based)
Count == IF backend = "js" THEN Len(balls) ELSE ball_count
Slot(i) == IF backend = "js" THEN balls[i + 1] ELSE balls[i]
\* no step is under way
Quiet == ~InFlight
PreSlot(i) == IF backend = "js" THEN pre[i + 1] ELSE pre[i]
Live == 0..(Count - 1)
Splitters == { i \in DOMAIN outcome : outcome[i] = "split" }

\* ------------------------------------------------------------------ claims

\* C1: parallel regime: whenever no invocation is between its atomicAdd and its
\* matching atomicSub, the counter is at most max_balls.
C1_CounterWithinCapAtRest ==
    (backend = "webgpu" /\ \A w \in DOMAIN pc : pc[w] # "sub")
        => ball_count <= cfg.maxBalls

\* C1 witness: an overshooting increment was rolled back and the counter rests at the cap
C1_Witness ==
    /\ backend = "webgpu"
    /\ \A w \in DOMAIN pc : pc[w] # "sub"
    /\ \E w \in DOMAIN outcome : outcome[w] = "rollback"
    /\ ball_count = cfg.maxBalls

\* C2: sequential regime: after every update the array holds at most maxBalls
\* particles, every split decision counting the children queued before it.
C2_JsHardCap ==
    backend = "js" => Len(balls) <= cfg.maxBalls

\* C2 witness: two particles qualified for a split in one update with one free slot;
\* one split, the other was refused by the cap
C2_Witness ==
    /\ backend = "js"
    /\ Len(balls) = cfg.maxBalls
    /\ n0 = cfg.maxBalls - 1
    /\ \E i, j \in DOMAIN outcome :
          /\ outcome[i] = "split"
          /\ outcome[j] = "clamp"
          /\ TimesRatio(PreSlot(j).radius, cfg) >= One

\* C3: no slot index is handed to two successful reservations, within a batch or
\* across batches.
C3_DistinctSlots ==
    backend = "webgpu" => \A k \in DOMAIN granted : granted[k] <= 1

\* C3 witness: two invocations of one batch raced for the last free slot; both ran
\* atomicAdd, one obtained the slot, the other was refused
C3_Witness ==
    /\ backend = "webgpu"
    /\ \E v, w \in DOMAIN outcome :
          /\ outcome[v] = "split"
          /\ childSlot[v] = cfg.maxBalls - 1
          /\ granted[childSlot[v]] = 1
          /\ outcome[w] = "rollback"

\* C4: every index processed during a step is below the population count that
\* held when the step began (a child is not processed in the step that created it).
C4_ChildrenWaitForNextStep ==
    \A i \in DOMAIN outcome : i < n0

\* C5: within a batch a slot below the starting count is written only by the
\* invocation of that index, a new slot only by the invocation whose split
\* reserved it, and no slot by two invocations.
C5_SingleWriter ==
    backend = "webgpu" =>
        \A k \in DOMAIN writers :
            /\ Cardinality(writers[k]) <= 1
            /\ k < n0 => writers[k] \subseteq {k}
            /\ k >= n0 => \A w \in writers[k] : w \in DOMAIN childSlot /\ childSlot[w] = k

\* C6: after a step, every particle that split has radius = old radius * splitRatio
\* and the grace flag; its child sits at the parent's position with the same radius
\* and the grace flag; the population grew by one per split.  In Scenario A the
\* first impact gives population 2 with both radii 48.0.
C6_SplitResult ==
    (Quiet /\ tick > 0) =>
        /\ \A i \in Splitters :
              /\ Slot(i).radius = TimesRatio(PreSlot(i).radius, cfg)
              /\ Slot(i).justSplit
              /\ Slot(childSlot[i]).x = Slot(i).x
              /\ Slot(childSlot[i]).y = Slot(i).y
              /\ Slot(childSlot[i]).radius = Slot(i).radius
              /\ Slot(childSlot[i]).justSplit
        /\ \A i, j \in Splitters : childSlot[i] = childSlot[j] => i = j
        /\ Count = n0 + Cardinality(Splitters)
        /\ (cfg = ScenarioA /\ n0 = 1 /\ Splitters # {}) =>
              /\ Count = 2
              /\ Slot(0).radius = 48 * One
              /\ Slot(1).radius = 48 * One

\* C7: a qualifying hit that produces no child (radius too small, cap reached,
\* reservation rolled back) leaves the radius at max(radius, 1.0) and writes no child.
C7_NoChildOnlyClamps ==
    (Quiet /\ tick > 0) =>
        \A i \in DOMAIN outcome :
            (i < n0 /\ outcome[i] \in {"clamp", "full", "rollback"}) =>
                /\ Slot(i).radius = Max(PreSlot(i).radius, One)
                /\ childSlot[i] = -1

\* C8: after every step every live particle has radius >= 1.0.
C8_RadiusFloor ==
    Quiet => \A i \in Live : Slot(i).radius >= One

\* C9: a particle that took part in a split in the previous step, as parent or as
\* child, does not split in this step.
C9_NoSplitRightAfterSplit ==
    \A i \in Splitters : i \notin tookPrev

\* C10: after a step the grace flag of a live particle is set exactly if the
\* particle was parent or child of a split of that step.
C10_GraceIffSplit ==
    (Quiet /\ tick > 0) => \A i \in Live : Slot(i).justSplit <=> i \in Took

\* C11: the population count at the end of a step is at least the count at the end
\* of the step before; no step reduces the committed population.
C11_CountNeverShrinks ==
    Quiet => Count >= n0

\* C11 witness: a step in which a reservation was rolled back (the counter went up
\* and down again) ended with the population it began with or more
C11_Witness ==
    /\ Quiet
    /\ tick > 0
    /\ \E w \in DOMAIN outcome : outcome[w] = "rollback"
    /\ Count >= n0

\* the colours the child of a split of slot i can be given: the colour draw of
\* Math.random(), or the second to fourth number of the generator of invocation i
ChildColors(i) ==
    IF backend = "js" THEN { ColorOf(r) : r \in ColorDraws }
    ELSE { GpuColor(Random(Seed(i, cfg), n)) : n \in 2..4 }

\* C12: a particle created at slot i stays at slot i: no step removes it or
\* replaces the content of the slot with a different particle (a particle keeps
\* its colour for life).
C12_StableSlots ==
    (Quiet /\ tick > 0) =>
        /\ \A i \in 0..(n0 - 1) :
              /\ i < Count
              /\ Slot(i).color = PreSlot(i).color
        /\ \A i \in Splitters :
              /\ childSlot[i] < Count
              /\ Slot(childSlot[i]).color \in ChildColors(i)

\* C13: at the end of every step the live slots are exactly [0, count) without an
\* unwritten hole: each slot at or above the previous count holds a child written
\* by a split of that step, and the child carries the grace flag.
C13_DenseChildren ==
    (Quiet /\ tick > 0) =>
        /\ Count >= n0
        /\ \A k \in n0..(Count - 1) :
              /\ \E i \in Splitters :
                    /\ childSlot[i] = k
                    /\ Slot(k).radius = TimesRatio(PreSlot(i).radius, cfg)
              /\ Slot(k).justSplit

\* the child's velocity is the parent's velocity after the bounce, scaled, with a
\* jitter added to both components
BothJittered(child, parent) ==
    \E s \in SpeedDraws : \E jx \in JitterDraws : \E jy \in JitterDrawsVy :
        /\ child.vx = FMul(parent.vx, SpeedFactor(s)) + Jitter(jx)
        /\ child.vy = FMul(parent.vy, SpeedFactor(s)) + Jitter(jy)

\* the same for a child of the shader: the second number of the generator is the
\* jitter of vy, the third the jitter of vx
GpuBothJittered(child, parent, seed) ==
    LET speed_factor == GpuSpeedFactor(Random(seed, 1))
    IN  /\ child.vx = Nearest(Scaled(parent.vx, speed_factor) + GpuJitter(Random(seed, 3)))
        /\ child.vy = Nearest(Scaled(parent.vy, speed_factor) + GpuJitter(Random(seed, 2)))
        /\ GpuJitter(Random(seed, 2)) # 0
        /\ GpuJitter(Random(seed, 3)) # 0

\* C14: a particle that breaches an x wall and a y wall in the same tick takes one
\* split decision: it shrinks once, creates one child, and the child as created has
\* both vx and vy jittered.  (Sequential: seen after the update; parallel: seen when
\* the invocation has stored its child and nothing else has touched the two slots.)
C14_CornerHitSplitsOnce ==
    /\ (backend = "js" /\ tick > 0) =>
          /\ Count = n0 + Cardinality(Splitters)
          /\ \A i \in Splitters :
                (JsMove(PreSlot(i), cfg).hitX /\ JsMove(PreSlot(i), cfg).hitY) =>
                    /\ Slot(i).radius = TimesRatio(PreSlot(i).radius, cfg)
                    /\ childSlot[i] \in n0..(Count - 1)
                    /\ \A j \in Splitters : childSlot[j] = childSlot[i] => j = i
                    /\ BothJittered(Slot(childSlot[i]), Slot(i))
    /\ backend = "webgpu" =>
          \A w \in DOMAIN outcome :
              (/\ pc[w] = "store"
               /\ outcome[w] = "split"
               /\ loc[w].hit_x /\ loc[w].hit_y
               /\ w \in DOMAIN balls
               /\ writers[w] = {}
               /\ writers[childSlot[w]] = {w}) =>
                    /\ loc[w].ball.radius = TimesRatio(pre[w].radius, cfg)
                    /\ Cardinality({ k \in DOMAIN writers : w \in writers[k] }) = 1
                    /\ GpuBothJittered(balls[childSlot[w]], loc[w].ball, Seed(w, cfg))

\* C14 witness: the seed hit the right wall and the top wall in one update and split
C14_Witness ==
    /\ backend = "js"
    /\ tick > 0
    /\ \E i \in Splitters :
          /\ JsMove(PreSlot(i), cfg).hitX
          /\ JsMove(PreSlot(i), cfg).hitY
          /\ Count = n0 + 1

\* one tick of motion of a particle: integrate and bounce
Advanced(ball) ==
    IF backend = "js" THEN JsMove(ball, cfg).ball ELSE GpuMove(ball, cfg).ball

\* C15: every step advances every particle that was live when the step began
\* exactly once (position += velocity, reflection at the walls), in both backends
\* and whatever the cached count that sized the dispatch.
C15_EveryLiveParticleAdvancedOnce ==
    (Quiet /\ tick > 0) =>
        \A i \in 0..(n0 - 1) :
            /\ Slot(i).x = Advanced(PreSlot(i)).x
            /\ Slot(i).y = Advanced(PreSlot(i)).y
            /\ Slot(i).vx = Advanced(PreSlot(i)).vx
            /\ Slot(i).vy = Advanced(PreSlot(i)).vy

\* the invocations between their atomicAdd and their atomicSub
RollingBack == { w \in DOMAIN pc : pc[w] = "sub" }

\* C16: during a batch of W invocations the counter never exceeds the cap by more
\* than W - 1, every increment beyond the cap is awaiting the decrement of the
\* invocation that made it, and no invocation is admitted, reads or writes a slot
\* because of a counter value above the cap (no index at or above the cap is
\* ever processed).
C16_OvershootStaysInternal ==
    backend = "webgpu" =>
        /\ DOMAIN pc # {} => ball_count <= cfg.maxBalls + (Cardinality(DOMAIN pc) - 1)
        /\ ball_count - Cardinality(RollingBack) <= cfg.maxBalls
        /\ \A w \in DOMAIN pc : pc[w] \notin {"load", "done"} => w < cfg.maxBalls
        /\ \A w \in DOMAIN outcome : w < cfg.maxBalls

\* C17: Scenario A on the sequential backend: whatever the random draws, the
\* population eventually reaches 10 and from then on stays exactly 10 (later wall
\* impacts create no particle).
C17_ScenarioAFills ==
    <>[](Count = ScenarioA.maxBalls)

\* C17 witness: with the population at 10 a particle big enough to split hit a
\* wall and the update created no particle
C17_Witness ==
    /\ cfg = ScenarioA
    /\ n0 = ScenarioA.maxBalls
    /\ Count = ScenarioA.maxBalls
    /\ \E i \in DOMAIN outcome :
          /\ outcome[i] = "clamp"
          /\ TimesRatio(PreSlot(i).radius, cfg) >= One

\* C18: Scenario B: if radius * splitRatio < 1.0 holds for the seed from the start,
\* no split ever occurs (the population stays 1) and every qualifying impact
\* clamps the radius to the floor: radius = max(radius, 1.0), no grace flag.
C18_ScenarioBNeverSplits ==
    TimesRatio(SeedRadius, cfg) < One =>
        /\ Count = 1
        /\ \A i \in DOMAIN outcome : i = 0 /\ outcome[i] \in {"none", "grace", "clamp"}
        /\ (Quiet /\ tick > 0 /\ outcome[0] = "clamp") =>
              /\ Slot(0).radius = Max(PreSlot(0).radius, One)
              /\ ~Slot(0).justSplit

\* C18 witness: in Scenario B the seed hit a wall with the grace flag clear (a
\* qualifying impact) at least twice and is still alone
C18_Witness ==
    /\ cfg = ScenarioB
    /\ Quiet
    /\ tick >= 3
    /\ outcome[0] = "clamp"
    /\ Count = 1
    /\ Slot(0).radius = SeedRadius

\* C19: Scenario C: with cap 1 the population is 1 after every step, the seed keeps
\* moving and bouncing, and a qualifying impact only clamps its radius to the
\* floor: it is never shrunk by a split.
C19_CapOneSeedBouncesOn ==
    cfg.maxBalls = 1 =>
        /\ Count = 1
        /\ Slot(0).radius = SeedRadius
        /\ Abs(Slot(0).vx) = Abs(SeedVx)
        /\ Abs(Slot(0).vy) = Abs(SeedVy)
        /\ \A i \in DOMAIN outcome : i = 0 /\ outcome[i] \notin {"split", "rollback"}
        /\ (Quiet /\ tick > 0) =>
              /\ Slot(0).x = Advanced(PreSlot(0)).x
              /\ Slot(0).y = Advanced(PreSlot(0)).y
              /\ Slot(0).vx = Advanced(PreSlot(0)).vx
              /\ Slot(0).vy = Advanced(PreSlot(0)).vy
              /\ ~Slot(0).justSplit

\* C19 witness: with cap 1 the seed has bounced off a wall for the second time,
\* the split was refused by the cap, and the seed moved on with its radius
C19_Witness ==
    /\ cfg.maxBalls = 1
    /\ backend = "webgpu"
    /\ Quiet
    /\ tick >= 2
    /\ outcome[0] = "full"
    /\ Slot(0).y = PreSlot(0).y + PreSlot(0).vy
    /\ Slot(0).vx = -PreSlot(0).vx
    /\ Slot(0).radius = SeedRadius

\* C20: construction validates the configuration: a simulation whose split ratio
\* is outside the open interval (0, 1) or whose cap is below 1 never executes a step.
C20_InvalidConfigNeverSteps ==
    ~(cfg.maxBalls >= 1 /\ 0 < cfg.num /\ cfg.num < cfg.den) => tick = 0

\* C30: every index an invocation uses on the ball array is inside the buffer of
\* max_balls slots: the index of its own load and store (idx) and the index of the
\* child it stores (new_idx), for every interleaving and also while the counter is
\* above the cap.
C30_IndicesInsideBuffer ==
    backend = "webgpu" =>
        \A w \in DOMAIN pc :
            /\ pc[w] \in {"read", "total", "add", "child", "sub", "store"} => w \in DOMAIN balls
            /\ pc[w] = "child" => loc[w].new_idx \in DOMAIN balls

\* the walls a particle reaches in the step that starts from record b
LowX(b) == b.x + b.vx - b.radius < 0
HighX(b) == ~LowX(b) /\ b.x + b.vx + b.radius > Width(cfg)
LowY(b) == b.y + b.vy - b.radius < 0
HighY(b) == ~LowY(b) /\ b.y + b.vy + b.radius > Height(cfg)
Inside(b) ==
    /\ b.radius <= b.x /\ b.x <= Width(cfg) - b.radius
    /\ b.radius <= b.y /\ b.y <= Height(cfg) - b.radius

\* C27: in an arena at least twice the radius wide and high, after every step
\* each live particle lies inside the arena, and a particle that reached a wall
\* in that step moves away from that wall afterwards (positive velocity after a
\* low wall, negative after a high wall).
C27_InsideAndInward ==
    (Quiet /\ tick > 0) =>
        /\ \A i \in Live :
               (2 * Slot(i).radius <= Width(cfg) /\ 2 * Slot(i).radius <= Height(cfg))
                   => Inside(Slot(i))
        /\ \A i \in 0..(n0 - 1) :
               (2 * PreSlot(i).radius <= Width(cfg) /\ 2 * PreSlot(i).radius <= Height(cfg)) =>
                   /\ LowX(PreSlot(i)) => Slot(i).vx > 0
                   /\ HighX(PreSlot(i)) => Slot(i).vx < 0
                   /\ LowY(PreSlot(i)) => Slot(i).vy > 0
                   /\ HighY(PreSlot(i)) => Slot(i).vy < 0

\* one step of invocation w, whichever statement it has reached
WorkerStep(w) ==
    \/ LoadCount(w) \/ ReadBall(w) \/ LoadTotal(w) \/ AtomicAdd(w)
    \/ WriteChild(w) \/ AtomicSub(w) \/ StoreBall(w)

\* how far down the entry point a statement lies
Stage(label) ==
    CASE label = "load" -> 0
      [] label = "read" -> 1
      [] label = "total" -> 2
      [] label = "add" -> 3
      [] label \in {"child", "sub"} -> 4
      [] label = "store" -> 5
      [] label = "done" -> 6

\* C25: a step never waits and always ends: an invocation that has not returned
\* can always take its next statement whatever the others do, every statement it
\* takes lies further down the entry point than the one before (so it runs
\* atomicAdd at most once: no retry), and the sequential update has visited
\* exactly the particles that were live when it started.
C25_StraightLineNoWait ==
    /\ [](\A w \in DOMAIN pc : pc[w] # "done" => ENABLED WorkerStep(w))
    /\ []((backend = "js" /\ tick > 0) => DOMAIN outcome = 0..(n0 - 1))
    /\ [][InFlight => \A w \in DOMAIN pc :
                         pc'[w] = pc[w] \/ Stage(pc'[w]) > Stage(pc[w])]_vars
C25_Witness ==
    /\ Quiet /\ backend = "webgpu" /\ tick > 0
    /\ \E w \in DOMAIN outcome : outcome[w] = "rollback"
    /\ \E w \in DOMAIN outcome : outcome[w] = "split"

\* this.balls after one JSBackend.update() on the array bs with the draws D
JsResult(bs, c, D) ==
    LET DD == [i \in 1..Len(bs) |-> IF i \in DOMAIN D THEN D[i] ELSE NoDraw]
        r == JsLoop(1, JsStart(bs), c, DD)
    IN  r.balls \o r.newBalls

\* the live part of the buffer when the last batch began, as an array
PreArray == [i \in 1..n0 |-> pre[i - 1]]

\* position, velocity, radius and grace flag of a record
Physical(b) == [x |-> b.x, y |-> b.y, vx |-> b.vx, vy |-> b.vy,
                radius |-> b.radius, justSplit |-> b.justSplit]

\* position, radius and grace flag of a record: what a child has whatever the
\* random numbers of its split are
Placed(b) == [x |-> b.x, y |-> b.y, radius |-> b.radius, justSplit |-> b.justSplit]

\* C24: a batch whose invocations ran one at a time (none started before the
\* one before it had returned) leaves the same population and, slot by slot,
\* the same position, velocity, radius and grace flag as one JSBackend.update()
\* on the same starting particles (the velocity of a child is left aside: the
\* two backends draw their random numbers from different generators).
C24_SerialBatchEqualsSequentialUpdate ==
    (backend = "webgpu" /\ Quiet /\ tick > 0 /\ ~overlapped) =>
        \E D \in [JsSplitters(PreArray, cfg) -> DrawTuples] :
            LET after == JsResult(PreArray, cfg, D)
            IN  /\ Len(after) = ball_count
                /\ \A i \in 1..Len(after) :
                       IF i <= n0 THEN Physical(after[i]) = Physical(balls[i - 1])
                       ELSE Placed(after[i]) = Placed(balls[i - 1])

\* the operations of the last draw that rasterize a particle
Shapes == SelectSeq(drawn, LAMBDA o : o.i >= 0)
\* the style changes of the last draw after the one that clears the canvas
Styles == SelectSeq(SubSeq(drawn, 2, Len(drawn)), LAMBDA o : o.op = "fillStyle")

C22_StrategyByPopulation ==
    (backend = "js" /\ drawn # << >>) =>
        LET shapes == Shapes
            styles == Styles
        IN  /\ Len(shapes) = Count
            /\ IF Count > 10000
               THEN /\ \A k \in DOMAIN shapes :
                          /\ shapes[k].op = "fillRect"
                          /\ shapes[k].w = 2 * Slot(shapes[k].i).radius
                          /\ shapes[k].h = 2 * Slot(shapes[k].i).radius
                    /\ Len(styles) = Cardinality({ Slot(i).color : i \in Live })
               ELSE /\ \A k \in DOMAIN shapes : shapes[k].op = "arc"
                    /\ Len(styles) = Count
C22_Witness ==
    /\ backend = "js" /\ drawn # << >>
    /\ Count > 10000
    /\ Cardinality({ Slot(i).color : i \in Live }) < Count

\* C23: a draw issued after a step rasterizes every particle that is live at
\* that moment exactly once, at its position and in its colour, children of
\* that step included, and nothing else, in both backends and both strategies.
C23_DrawCoversLiveSet ==
    drawn # << >> =>
        /\ \A i \in Live :
               \E k \in DOMAIN Shapes :
                   /\ Shapes[k].i = i
                   /\ Shapes[k].color = Rgb(Slot(i).color)
                   /\ \A j \in DOMAIN Shapes : Shapes[j].i = i => j = k
        /\ \A k \in DOMAIN Shapes : Shapes[k].i \in Live

\* the order of the attempts at the end of run()
StartupOrder == << "webgpu", "wasm", "js" >>
Outstanding == Len(host.callbacks) + Len(host.running)

\* C26: at startup the backends are tried in the order WebGPU, WASM, JS; an
\* attempt is made only after all attempts before it failed (a WebGPU failure
\* shows as the false return of initWebGPU), the attempts stop at the first
\* success, and until the user switches, the backend that succeeded is the
\* active one and a frame is requested only once a backend has initialised.
C26_StartupFallback ==
    /\ host.startup = "done" =>
          LET n == Len(host.tried)
          IN  /\ n \in 1..3
              /\ \A k \in 1..n : host.tried[k].name = StartupOrder[k]
              /\ \A k \in 1..(n - 1) : ~host.tried[k].ok
              /\ n < 3 => host.tried[n].ok
              /\ host.clicks = 0 =>
                    IF host.tried[n].ok
                    THEN /\ host.currentBackendType = host.tried[n].name
                         /\ host.backend = [kind |-> host.tried[n].name, ready |-> TRUE]
                    ELSE /\ host.currentBackendType = "none"
                         /\ Outstanding = 0
    /\ (host.clicks = 0 /\ Outstanding > 0) =>
          /\ host.backend.ready
          /\ host.backend.kind = host.currentBackendType
          /\ \E k \in DOMAIN host.tried : host.tried[k].ok
C26_Witness ==
    /\ host.startup = "done" /\ host.clicks = 0
    /\ Len(host.tried) = 3 /\ host.tried[3].ok
    /\ host.calls # << >>

\* every render() of the last callback directly follows an update() on the same
\* object, and the callback called update() at most once
PairedCalls ==
    /\ \A k \in DOMAIN host.calls :
          host.calls[k].op = "render" =>
              /\ k > 1
              /\ host.calls[k - 1].op = "update"
              /\ host.calls[k - 1].kind = host.calls[k].kind
    /\ Cardinality({ k \in DOMAIN host.calls : host.calls[k].op = "update" }) <= 1

\* C28: in every animation frame at most one callback calls update(), it does
\* so only when at least frameInterval has passed since the last frame that was
\* rendered, and every render() directly follows one update() on the same
\* backend in the same callback.
C28_OneUpdatePerFrameAfterInterval ==
    /\ host.worked <= 1
    /\ host.calls # << >> => ~Before(host.elapsed, host.interval)
    /\ PairedCalls

\* C29: at most one requestAnimationFrame callback is outstanding at any time,
\* and no loop callback calls update() or render() between stopAnimation() and
\* the next startAnimation(), on an object whose init() has not finished, or on
\* an object of another type than currentBackendType.
C29_NoCallbackAfterStop ==
    /\ Outstanding <= 1
    /\ \A k \in DOMAIN host.calls :
          /\ ~host.calls[k].stopped
          /\ host.calls[k].ready
          /\ host.calls[k].kind = host.calls[k].type

\* the device runs every invocation it has launched: the next statement of an
\* invocation that has not returned is taken (C25: it can always be taken)
Advance ==
    \/ /\ \E w \in Upper : pc[w] = "load"
       /\ pc' = [w \in DOMAIN pc |-> IF w \in Upper THEN "done" ELSE pc[w]]
    \/ \E w \in DOMAIN pc :
          /\ Turn(w)
          /\ pc[w] # "done"
          /\ \E l \in {"read", "total", "add", "child", "sub", "store", "done"} :
                 Stage(l) > Stage(pc[w]) /\ pc' = [pc EXCEPT ![w] = l]


\* requestAnimationFrame(loop) on the js path: the next frame comes, and with it
\* the next update(); a step is possible exactly if the tick can advance
JsTick ==
    /\ backend = "js"
    /\ Explored(tick)
    /\ tick' = tick + 1

\* the steppers with the scheduling the platform gives: the animation frames keep
\* coming, the invocations of a dispatch are run to their end, the device takes
\* up the commands of its queue, and a mapAsync that can resolve does
SpecF ==
    /\ Init
    /\ [][Next]_vars
    /\ WF_tick(JsTick)
    /\ WF_queue(HostTurn /\ GpuFrame)
    /\ WF_pc(Advance)
    /\ WF_vars(Dispatch)
    /\ WF_vars(GpuRender)
    /\ WF_vars(GpuWrite)
    /\ WF_vars(ReadCopy)
    /\ WF_vars(HostTurn /\ ReadResolve)

\* getBallCount() of the backend in use
GetBallCount == IF backend = "js" THEN Len(balls) ELSE ballCount

\* C31: the count getBallCount() returns is never above the counter and never
\* goes down, whatever the interleaving of dispatches, invocations and
\* readBallCount() resolutions; a readBallCount() copies the counter as it is when
\* the device takes the copy up, its resolution stores the value copied, and
\* every readBallCount() issued resolves: the cache equals the counter once a read
\* issued after the population has stopped growing has resolved; for JSBackend the
\* count is the length of this.balls at all times.
C31_CacheBelowCounterAndCatchesUp ==
    /\ [](backend = "webgpu" => GetBallCount <= ball_count)
    /\ [](backend = "js" => GetBallCount = Cardinality(DOMAIN balls))
    /\ [][GetBallCount' >= GetBallCount]_vars
    /\ [][Len(pending') > Len(pending) => pending'[Len(pending')] = ball_count]_vars
    /\ [][Len(pending') < Len(pending) => GetBallCount' = Head(pending)]_vars
    /\ (backend = "webgpu" /\ Unresolved > 0) ~> (Unresolved = 0)

\* C31 witness: a read issued after the population had grown has resolved, and
\* the cache equals the counter
C31_Witness ==
    /\ backend = "webgpu" /\ Quiet
    /\ ballCount = ball_count
    /\ ball_count > 1
    /\ events > 0

\* C32: no step changes the magnitude of a velocity component of a particle
\* that existed before it: once a step has completed, every slot that was live
\* when it began holds the |vx| and |vy| it held then (a reflection changes
\* the sign only, a split gives a new velocity to the child only).
C32_SpeedMagnitudesKept ==
    (Quiet /\ tick > 0) =>
        \A i \in 0..(n0 - 1) :
            /\ Abs(Slot(i).vx) = Abs(PreSlot(i).vx)
            /\ Abs(Slot(i).vy) = Abs(PreSlot(i).vy)
====
